---- MODULE Spec2Model ----
(***************************************************************************)
(* Authorization-gated task service (task/validator.go) and the logging    *)
(* query bridge (query/logging.go) of influxdb.                            *)
(*                                                                         *)
(* Every handler is one action.  A handler's collaborator calls (the       *)
(* wrapped TaskService, Authorizer.Allowed, flux.Compile, PreAuthorize,    *)
(* the iterator, the encoder, the logger) are recorded, in program order,  *)
(* in the `calls` field of the record the action leaves behind.            *)
(***************************************************************************)
EXTENDS Integers, Sequences, FiniteSets, TLC

\* ---------------------------------------------------------------- bounds
MaxTasks == 2        \* task IDs the persistence layer can hand out
MaxPerms == 2        \* permissions a principal holds at most
MaxBytes == 2        \* bytes an encoder writes at most
MaxStat  == 2        \* the largest statistics total a query ends with

Orgs    == {1, 2}
TaskIDs == 1 .. MaxTasks
Idents  == {7, 8}

\* ------------------------------------------------------------ permissions
ReadAction  == "read"
WriteAction == "write"
TasksResourceType   == "tasks"
BucketsResourceType == "buckets"

\* A Permission; id = 0 / org = 0 stand for the nil pointers.
NewPermission(action, type, orgID) ==
    [action |-> action, type |-> type, id |-> 0, org |-> orgID]

NewPermissionAtID(id, action, type, orgID) ==
    [action |-> action, type |-> type, id |-> id, org |-> orgID]

NoPerm == [action |-> "", type |-> "", id |-> 0, org |-> 0]

\* Permission.Matches: same action, same resource type, and the held
\* permission is unscoped, or names the required organization, or names the
\* required resource.
Matches(p, r) ==
    /\ p.action = r.action
    /\ p.type = r.type
    /\ \/ (p.id = 0 /\ p.org = 0)
       \/ (p.org # 0 /\ p.org = r.org)
       \/ (p.id # 0 /\ p.id = r.id)

\* Authorizer.Allowed for a principal holding the permission set a.perms.
Allowed(a, perm) == \E p \in a.perms : Matches(p, perm)

\* The permissions a principal of the model may hold.
GrantablePerms ==
    { NewPermission(WriteAction, TasksResourceType, 1),
      NewPermission(ReadAction, TasksResourceType, 1),
      NewPermissionAtID(1, WriteAction, TasksResourceType, 0),
      NewPermission(ReadAction, BucketsResourceType, 1),
      NewPermission(WriteAction, BucketsResourceType, 2) }

\* The context without an authorizer, and the contexts with one.
NoAuth == [present |-> FALSE, ident |-> 0, perms |-> {}]

Principals ==
    { [present |-> TRUE, ident |-> i, perms |-> ps] :
        i \in Idents,
        ps \in { s \in SUBSET GrantablePerms : Cardinality(s) <= MaxPerms } }

\* ----------------------------------------------------------------- errors
NoErr == [kind |-> "nil"]

\* platcontext.GetAuthorizer on a context that carries none.
ErrNoAuthorizer == [kind |-> "internal", msg |-> "authorizer not found on context"]

\* Mutant: the error keeps only the sentinel, not the permission and the principal.
authError_NoPayload(perm, a) ==
    [kind |-> "authError", msg |-> "unauthorized", perm |-> NoPerm, auth |-> 0]

\* authError{error: ErrFailedPermission, perm: perm, auth: auth}
authError(perm, a) ==
    [kind |-> "authError", msg |-> "unauthorized", perm |-> perm, auth |-> a.ident]

\* platform.NewError(WithErrorErr(err), WithErrorMsg(msg), WithErrorCode(EInvalid))
EInvalidError(err, msg) == [kind |-> "invalid", msg |-> msg, wraps |-> err]

ErrNotFound  == [kind |-> "notFound", msg |-> "task not found"]
ErrWrapped   == [kind |-> "internal", msg |-> "wrapped service failed"]
ErrCompile   == [kind |-> "compile", msg |-> "syntax error"]
ErrPreAuth(ref) ==
    [kind |-> "preauth", msg |-> "no access to bucket", bucket |-> ref.bucket, org |-> ref.org]

IsErr(e) == e # NoErr

\* ---------------------------------------------------------------- events
Ev(fn, arg, res) == [fn |-> fn, arg |-> arg, res |-> res]

NoArg == [none |-> TRUE]

NoVal == [t |-> "none"]

\* A handler's outcome: what it returns, the collaborator calls it made, and the
\* persistence layer's state afterwards.
Outcome(val, err, calls, st) ==
    [ret |-> [val |-> val, err |-> err], calls |-> calls, store |-> st]

\* ------------------------------------------------- compiler, pre-authorizer
Scripts == {"bad", "fromA", "fromAtoB"}

BucketRef(org, bucket, effect) == [org |-> org, bucket |-> bucket, effect |-> effect]

\* flux.Compile: the plan's bucket references, in plan order; "bad" is malformed.
Compile(script) ==
    CASE script = "fromA" ->
           [err |-> NoErr, plan |-> << BucketRef(1, 1, ReadAction) >>]
      [] script = "fromAtoB" ->
           [err |-> NoErr,
            plan |-> << BucketRef(1, 1, ReadAction), BucketRef(2, 2, WriteAction) >>]
      [] OTHER -> [err |-> ErrCompile, plan |-> << >>]

\* PreAuthorizer.PreAuthorize: every bucket reference of the plan is checked in
\* turn against the principal; the first one not Allowed aborts.
RECURSIVE PreAuthorizeFrom(_, _, _, _)
PreAuthorizeFrom(plan, a, i, calls) ==
    IF i > Len(plan) THEN [err |-> NoErr, calls |-> calls]
    ELSE LET ref  == plan[i]
             perm == NewPermissionAtID(ref.bucket, ref.effect, BucketsResourceType, ref.org)
             ok   == Allowed(a, perm)
             ev   == Ev("Allowed", perm, [ok |-> ok])
         IN IF ~ok THEN [err |-> ErrPreAuth(ref), calls |-> Append(calls, ev)]
            ELSE PreAuthorizeFrom(plan, a, i + 1, Append(calls, ev))

PreAuthorize(plan, a) == PreAuthorizeFrom(plan, a, 1, << >>)

\* ------------------------------------------- wrapped TaskService (persistence)
\* store[id].org = 0: no task with this ID.
NoTask == [org |-> 0, flux |-> ""]
EmptyStore == [id \in TaskIDs |-> NoTask]
\* The stores a run starts from: any tasks of any organization, each holding a
\* script that compiled when it was written.
InitialStores == [TaskIDs -> {NoTask} \cup [org : Orgs, flux : {"fromA"}]]

TaskVal(st, id) == [t |-> "task", id |-> id, org |-> st[id].org, flux |-> st[id].flux]

Exists(st, id) == st[id].org # 0

TS_FindTaskByID(st, id) ==
    IF Exists(st, id) THEN [val |-> TaskVal(st, id), err |-> NoErr, store |-> st]
    ELSE [val |-> NoVal, err |-> ErrNotFound, store |-> st]

\* The tasks matching the filter, in ID order, cut to the filter's limit.
RECURSIVE TasksFrom(_, _, _)
TasksFrom(st, filter, id) ==
    IF id > MaxTasks THEN << >>
    ELSE IF Exists(st, id) /\ (filter.org = 0 \/ filter.org = st[id].org)
         THEN << TaskVal(st, id) >> \o TasksFrom(st, filter, id + 1)
         ELSE TasksFrom(st, filter, id + 1)

Page(list, limit) == IF Len(list) > limit THEN SubSeq(list, 1, limit) ELSE list

TS_FindTasks(st, filter, fail) ==
    IF fail THEN [val |-> NoVal, err |-> ErrWrapped, store |-> st]
    ELSE LET all == TasksFrom(st, filter, 1)
         IN [val |-> [t |-> "tasks", list |-> Page(all, filter.limit), count |-> Len(all)],
             err |-> NoErr, store |-> st]

FreeIDs(st) == { id \in TaskIDs : ~Exists(st, id) }

Lowest(S) == CHOOSE x \in S : \A y \in S : x <= y

TS_CreateTask(st, t, fail) ==
    IF fail \/ FreeIDs(st) = {} THEN [val |-> NoVal, err |-> ErrWrapped, store |-> st]
    ELSE LET id  == Lowest(FreeIDs(st))
             st2 == [st EXCEPT ![id] = [org |-> t.org, flux |-> t.flux]]
         IN [val |-> TaskVal(st2, id), err |-> NoErr, store |-> st2]

TS_UpdateTask(st, id, upd, fail) ==
    IF fail \/ ~Exists(st, id) THEN [val |-> NoVal, err |-> ErrWrapped, store |-> st]
    ELSE LET st2 == IF upd.flux = "" THEN st ELSE [st EXCEPT ![id].flux = upd.flux]
         IN [val |-> TaskVal(st2, id), err |-> NoErr, store |-> st2]

TS_DeleteTask(st, id, fail) ==
    IF fail \/ ~Exists(st, id) THEN [val |-> NoVal, err |-> ErrWrapped, store |-> st]
    ELSE [val |-> NoVal, err |-> NoErr, store |-> [st EXCEPT ![id] = NoTask]]

\* FindLogs, FindRuns, FindRunByID, CancelRun, RetryRun, ForceRun of the wrapped
\* service: they leave the tasks alone and answer with a value or with an error.
TS_RunOp(st, fn, arg, fail) ==
    IF fail THEN [val |-> NoVal, err |-> ErrWrapped, store |-> st]
    ELSE [val |-> [t |-> fn, of |-> arg], err |-> NoErr, store |-> st]

Res(r) == [val |-> r.val, err |-> r.err]

\* ------------------------------------------------------ task/validator.go
\* Mutant: the answer of Allowed is not looked at.
validatePermission_NoCheck(a, perm) ==
    IF ~a.present THEN [err |-> ErrNoAuthorizer, calls |-> << >>]
    ELSE [err |-> NoErr, calls |-> << Ev("Allowed", perm, [ok |-> Allowed(a, perm)]) >>]

\* validatePermission(ctx, perm): [err, calls].
validatePermission(a, perm) ==
    IF ~a.present THEN [err |-> ErrNoAuthorizer, calls |-> << >>]
    ELSE LET ok == Allowed(a, perm)
             ev == Ev("Allowed", perm, [ok |-> ok])
         IN IF ~ok THEN [err |-> authError(perm, a), calls |-> << ev >>]
            ELSE [err |-> NoErr, calls |-> << ev >>]

\* Mutant: the error of PreAuthorize is dropped.
validateBucket_IgnorePreAuth(a, script) ==
    IF ~a.present THEN [err |-> ErrNoAuthorizer, calls |-> << >>]
    ELSE LET c  == Compile(script)
             e1 == Ev("Compile", [script |-> script], [err |-> c.err])
         IN IF IsErr(c.err)
            THEN [err |-> EInvalidError(c.err, "Failed to compile flux script."),
                  calls |-> << e1 >>]
            ELSE LET pa == PreAuthorize(c.plan, a)
                     e2 == Ev("PreAuthorize", [script |-> script], [err |-> pa.err])
                 IN [err |-> NoErr, calls |-> << e1 >> \o pa.calls \o << e2 >>]

\* Mutant: the compiler's and the pre-authorizer's errors are returned as they are.
validateBucket_RawErrors(a, script) ==
    IF ~a.present THEN [err |-> ErrNoAuthorizer, calls |-> << >>]
    ELSE LET c  == Compile(script)
             e1 == Ev("Compile", [script |-> script], [err |-> c.err])
         IN IF IsErr(c.err) THEN [err |-> c.err, calls |-> << e1 >>]
            ELSE LET pa == PreAuthorize(c.plan, a)
                     e2 == Ev("PreAuthorize", [script |-> script], [err |-> pa.err])
                 IN [err |-> pa.err, calls |-> << e1 >> \o pa.calls \o << e2 >>]

\* validateBucket(ctx, script, preAuth): [err, calls].
validateBucket(a, script) ==
    IF ~a.present THEN [err |-> ErrNoAuthorizer, calls |-> << >>]
    ELSE LET c  == Compile(script)
             e1 == Ev("Compile", [script |-> script], [err |-> c.err])
         IN IF IsErr(c.err)
            THEN [err |-> EInvalidError(c.err, "Failed to compile flux script."),
                  calls |-> << e1 >>]
            ELSE LET pa == PreAuthorize(c.plan, a)
                     e2 == Ev("PreAuthorize", [script |-> script], [err |-> pa.err])
                     cs == << e1 >> \o pa.calls \o << e2 >>
                 IN IF IsErr(pa.err)
                    THEN [err |-> EInvalidError(pa.err, "Failed to authorize."), calls |-> cs]
                    ELSE [err |-> NoErr, calls |-> cs]

FindTaskByID(a, st, id) ==
    LET lk == TS_FindTaskByID(st, id)
        e1 == Ev("TS.FindTaskByID", [id |-> id], Res(lk))
    IN IF IsErr(lk.err) THEN Outcome(NoVal, lk.err, << e1 >>, st)
       ELSE LET perm == NewPermissionAtID(id, ReadAction, TasksResourceType, lk.val.org)
                vp   == validatePermission(a, perm)
            IN IF IsErr(vp.err) THEN Outcome(NoVal, vp.err, << e1 >> \o vp.calls, st)
               ELSE Outcome(lk.val, NoErr, << e1 >> \o vp.calls, st)

\* The loop of FindTasks over the unauthenticated tasks: [tasks, calls].
RECURSIVE FilterReadable(_, _, _, _, _)
FilterReadable(a, unauth, i, tasks, calls) ==
    IF i > Len(unauth) THEN [tasks |-> tasks, calls |-> calls]
    ELSE LET t    == unauth[i]
             perm == NewPermissionAtID(t.id, ReadAction, TasksResourceType, t.org)
             vp   == validatePermission(a, perm)
         IN IF IsErr(vp.err)
            THEN FilterReadable(a, unauth, i + 1, tasks, calls \o vp.calls)
            ELSE FilterReadable(a, unauth, i + 1, Append(tasks, t), calls \o vp.calls)

\* Mutant: the count of the wrapped service is passed on.
FindTasks_WrappedCount(a, st, filter, fail) ==
    LET w  == TS_FindTasks(st, filter, fail)
        e1 == Ev("TS.FindTasks", filter, Res(w))
    IN IF IsErr(w.err) THEN Outcome([t |-> "tasks", list |-> << >>, count |-> 0], w.err, << e1 >>, st)
       ELSE LET f == FilterReadable(a, w.val.list, 1, << >>, << e1 >>)
            IN Outcome([t |-> "tasks", list |-> f.tasks, count |-> w.val.count],
                       NoErr, f.calls, st)

\* Mutant: a page that filters down to fewer tasks than the limit is topped up
\* from a second, longer fetch.
FindTasks_NextPage(a, st, filter, fail) ==
    LET w  == TS_FindTasks(st, filter, fail)
        e1 == Ev("TS.FindTasks", filter, Res(w))
    IN IF IsErr(w.err) THEN Outcome([t |-> "tasks", list |-> << >>, count |-> 0], w.err, << e1 >>, st)
       ELSE LET f == FilterReadable(a, w.val.list, 1, << >>, << e1 >>)
            IN IF Len(f.tasks) >= filter.limit \/ w.val.count <= filter.limit
               THEN Outcome([t |-> "tasks", list |-> f.tasks, count |-> Len(f.tasks)],
                            NoErr, f.calls, st)
               ELSE LET more == [filter EXCEPT !.limit = w.val.count]
                        w2   == TS_FindTasks(st, more, fail)
                        f2   == FilterReadable(a, w2.val.list, 1, << >>,
                                               Append(f.calls, Ev("TS.FindTasks", more, Res(w2))))
                    IN Outcome([t |-> "tasks", list |-> Page(f2.tasks, filter.limit),
                                count |-> Len(Page(f2.tasks, filter.limit))],
                               NoErr, f2.calls, st)

FindTasks(a, st, filter, fail) ==
    LET w  == TS_FindTasks(st, filter, fail)
        e1 == Ev("TS.FindTasks", filter, Res(w))
    IN IF IsErr(w.err) THEN Outcome([t |-> "tasks", list |-> << >>, count |-> 0], w.err, << e1 >>, st)
       ELSE LET f == FilterReadable(a, w.val.list, 1, << >>, << e1 >>)
            IN Outcome([t |-> "tasks", list |-> f.tasks, count |-> Len(f.tasks)],
                       NoErr, f.calls, st)

\* Mutant: the create is sent to the wrapped service a second time.
CreateTask_Twice(a, st, t, fail) ==
    LET p  == NewPermission(WriteAction, TasksResourceType, t.org)
        vp == validatePermission(a, p)
    IN IF IsErr(vp.err) THEN Outcome(NoVal, vp.err, vp.calls, st)
       ELSE LET vb == validateBucket(a, t.flux)
            IN IF IsErr(vb.err) THEN Outcome(NoVal, vb.err, vp.calls \o vb.calls, st)
               ELSE LET w1 == TS_CreateTask(st, t, fail)
                        w  == TS_CreateTask(w1.store, t, fail)
                    IN Outcome(w.val, w.err,
                               vp.calls \o vb.calls
                                 \o << Ev("TS.CreateTask", t, Res(w1)), Ev("TS.CreateTask", t, Res(w)) >>,
                               w.store)

CreateTask(a, st, t, fail) ==
    LET p  == NewPermission(WriteAction, TasksResourceType, t.org)
        vp == validatePermission(a, p)
    IN IF IsErr(vp.err) THEN Outcome(NoVal, vp.err, vp.calls, st)
       ELSE LET vb == validateBucket(a, t.flux)
            IN IF IsErr(vb.err) THEN Outcome(NoVal, vb.err, vp.calls \o vb.calls, st)
               ELSE LET w == TS_CreateTask(st, t, fail)
                    IN Outcome(w.val, w.err,
                               vp.calls \o vb.calls \o << Ev("TS.CreateTask", t, Res(w)) >>,
                               w.store)

UpdateTask(a, st, id, upd, fail) ==
    LET lk == TS_FindTaskByID(st, id)
        e1 == Ev("TS.FindTaskByID", [id |-> id], Res(lk))
    IN IF IsErr(lk.err) THEN Outcome(NoVal, lk.err, << e1 >>, st)
       ELSE LET p  == NewPermissionAtID(id, WriteAction, TasksResourceType, lk.val.org)
                vp == validatePermission(a, p)
            IN IF IsErr(vp.err) THEN Outcome(NoVal, vp.err, << e1 >> \o vp.calls, st)
               ELSE LET vb == validateBucket(a, lk.val.flux)
                        cs == << e1 >> \o vp.calls \o vb.calls
                    IN IF IsErr(vb.err) THEN Outcome(NoVal, vb.err, cs, st)
                       ELSE LET w == TS_UpdateTask(st, id, upd, fail)
                            IN Outcome(w.val, w.err,
                                       Append(cs, Ev("TS.UpdateTask", [id |-> id, upd |-> upd], Res(w))),
                                       w.store)

\* Mutant: a task that is not there is answered like one that may not be touched.
DeleteTask_HidesNotFound(a, st, id, fail) ==
    LET lk == TS_FindTaskByID(st, id)
        e1 == Ev("TS.FindTaskByID", [id |-> id], Res(lk))
    IN IF IsErr(lk.err)
       THEN Outcome(NoVal, authError(NewPermissionAtID(id, WriteAction, TasksResourceType, 0), a),
                    << e1 >>, st)
       ELSE LET p  == NewPermissionAtID(id, WriteAction, TasksResourceType, lk.val.org)
                vp == validatePermission(a, p)
            IN IF IsErr(vp.err) THEN Outcome(NoVal, vp.err, << e1 >> \o vp.calls, st)
               ELSE LET w == TS_DeleteTask(st, id, fail)
                    IN Outcome(w.val, w.err,
                               << e1 >> \o vp.calls \o << Ev("TS.DeleteTask", [id |-> id], Res(w)) >>,
                               w.store)

DeleteTask(a, st, id, fail) ==
    LET lk == TS_FindTaskByID(st, id)
        e1 == Ev("TS.FindTaskByID", [id |-> id], Res(lk))
    IN IF IsErr(lk.err) THEN Outcome(NoVal, lk.err, << e1 >>, st)
       ELSE LET p  == NewPermissionAtID(id, WriteAction, TasksResourceType, lk.val.org)
                vp == validatePermission(a, p)
            IN IF IsErr(vp.err) THEN Outcome(NoVal, vp.err, << e1 >> \o vp.calls, st)
               ELSE LET w == TS_DeleteTask(st, id, fail)
                    IN Outcome(w.val, w.err,
                               << e1 >> \o vp.calls \o << Ev("TS.DeleteTask", [id |-> id], Res(w)) >>,
                               w.store)

FindLogs(a, st, filter, fail) ==
    LET ft == FindTaskByID(a, st, filter.task)
    IN IF IsErr(ft.ret.err) THEN Outcome(NoVal, ft.ret.err, ft.calls, st)
       ELSE LET w == TS_RunOp(st, "FindLogs", filter, fail)
            IN Outcome(w.val, w.err, Append(ft.calls, Ev("TS.FindLogs", filter, Res(w))), st)

FindRuns(a, st, filter, fail) ==
    LET ft == FindTaskByID(a, st, filter.task)
    IN IF IsErr(ft.ret.err) THEN Outcome(NoVal, ft.ret.err, ft.calls, st)
       ELSE LET task == ft.ret.val
                perm == NewPermissionAtID(task.id, ReadAction, TasksResourceType, task.org)
                vp   == validatePermission(a, perm)
            IN IF IsErr(vp.err) THEN Outcome(NoVal, vp.err, ft.calls \o vp.calls, st)
               ELSE LET w == TS_RunOp(st, "FindRuns", filter, fail)
                    IN Outcome(w.val, w.err,
                               ft.calls \o vp.calls \o << Ev("TS.FindRuns", filter, Res(w)) >>, st)

FindRunByID(a, st, taskID, runID, fail) ==
    LET lk == TS_FindTaskByID(st, taskID)
        e1 == Ev("TS.FindTaskByID", [id |-> taskID], Res(lk))
    IN IF IsErr(lk.err) THEN Outcome(NoVal, lk.err, << e1 >>, st)
       ELSE LET p  == NewPermissionAtID(taskID, ReadAction, TasksResourceType, lk.val.org)
                vp == validatePermission(a, p)
            IN IF IsErr(vp.err) THEN Outcome(NoVal, vp.err, << e1 >> \o vp.calls, st)
               ELSE LET arg == [task |-> taskID, run |-> runID]
                        w   == TS_RunOp(st, "FindRunByID", arg, fail)
                    IN Outcome(w.val, w.err,
                               << e1 >> \o vp.calls \o << Ev("TS.FindRunByID", arg, Res(w)) >>, st)

\* Mutant: the task is looked up through the Validator's own FindTaskByID, which
\* adds the Read check.
CancelRun_ViaFindTaskByID(a, st, taskID, runID, fail) ==
    LET ft == FindTaskByID(a, st, taskID)
    IN IF IsErr(ft.ret.err) THEN Outcome(NoVal, ft.ret.err, ft.calls, st)
       ELSE LET p  == NewPermissionAtID(taskID, WriteAction, TasksResourceType, ft.ret.val.org)
                vp == validatePermission(a, p)
            IN IF IsErr(vp.err) THEN Outcome(NoVal, vp.err, ft.calls \o vp.calls, st)
               ELSE LET arg == [task |-> taskID, run |-> runID]
                        w   == TS_RunOp(st, "CancelRun", arg, fail)
                    IN Outcome(NoVal, w.err,
                               ft.calls \o vp.calls \o << Ev("TS.CancelRun", arg, Res(w)) >>, st)

CancelRun(a, st, taskID, runID, fail) ==
    LET lk == TS_FindTaskByID(st, taskID)
        e1 == Ev("TS.FindTaskByID", [id |-> taskID], Res(lk))
    IN IF IsErr(lk.err) THEN Outcome(NoVal, lk.err, << e1 >>, st)
       ELSE LET p  == NewPermissionAtID(taskID, WriteAction, TasksResourceType, lk.val.org)
                vp == validatePermission(a, p)
            IN IF IsErr(vp.err) THEN Outcome(NoVal, vp.err, << e1 >> \o vp.calls, st)
               ELSE LET arg == [task |-> taskID, run |-> runID]
                        w   == TS_RunOp(st, "CancelRun", arg, fail)
                    IN Outcome(NoVal, w.err,
                               << e1 >> \o vp.calls \o << Ev("TS.CancelRun", arg, Res(w)) >>, st)

RetryRun(a, st, taskID, runID, fail) ==
    LET lk == TS_FindTaskByID(st, taskID)
        e1 == Ev("TS.FindTaskByID", [id |-> taskID], Res(lk))
    IN IF IsErr(lk.err) THEN Outcome(NoVal, lk.err, << e1 >>, st)
       ELSE LET p  == NewPermissionAtID(taskID, WriteAction, TasksResourceType, lk.val.org)
                vp == validatePermission(a, p)
            IN IF IsErr(vp.err) THEN Outcome(NoVal, vp.err, << e1 >> \o vp.calls, st)
               ELSE LET arg == [task |-> taskID, run |-> runID]
                        w   == TS_RunOp(st, "RetryRun", arg, fail)
                    IN Outcome(w.val, w.err,
                               << e1 >> \o vp.calls \o << Ev("TS.RetryRun", arg, Res(w)) >>, st)

\* Mutant: the error of the lookup is wrapped before it is returned.
ForceRun_WrapsLookupError(a, st, taskID, scheduledFor, fail) ==
    LET lk == TS_FindTaskByID(st, taskID)
        e1 == Ev("TS.FindTaskByID", [id |-> taskID], Res(lk))
    IN IF IsErr(lk.err)
       THEN Outcome(NoVal, EInvalidError(lk.err, "Failed to find task."), << e1 >>, st)
       ELSE LET p  == NewPermissionAtID(taskID, WriteAction, TasksResourceType, lk.val.org)
                vp == validatePermission(a, p)
            IN IF IsErr(vp.err) THEN Outcome(NoVal, vp.err, << e1 >> \o vp.calls, st)
               ELSE LET arg == [task |-> taskID, scheduledFor |-> scheduledFor]
                        w   == TS_RunOp(st, "ForceRun", arg, fail)
                    IN Outcome(w.val, w.err,
                               << e1 >> \o vp.calls \o << Ev("TS.ForceRun", arg, Res(w)) >>, st)

ForceRun(a, st, taskID, scheduledFor, fail) ==
    LET lk == TS_FindTaskByID(st, taskID)
        e1 == Ev("TS.FindTaskByID", [id |-> taskID], Res(lk))
    IN IF IsErr(lk.err) THEN Outcome(NoVal, lk.err, << e1 >>, st)
       ELSE LET p  == NewPermissionAtID(taskID, WriteAction, TasksResourceType, lk.val.org)
                vp == validatePermission(a, p)
            IN IF IsErr(vp.err) THEN Outcome(NoVal, vp.err, << e1 >> \o vp.calls, st)
               ELSE LET arg == [task |-> taskID, scheduledFor |-> scheduledFor]
                        w   == TS_RunOp(st, "ForceRun", arg, fail)
                    IN Outcome(w.val, w.err,
                               << e1 >> \o vp.calls \o << Ev("TS.ForceRun", arg, Res(w)) >>, st)

\* --------------------------------------------------------- query/logging.go
ErrQuery  == [kind |-> "internal", msg |-> "query failed"]
ErrEncode == [kind |-> "internal", msg |-> "encode failed"]
ErrIter   == [kind |-> "internal", msg |-> "iterator failed"]

\* fmt.Errorf("panic: %v", r)
PanicError(r) == [kind |-> "panic", msg |-> "panic: " \o r]

\* tracing.LogError(span, err) notes the error on the span and hands it back.
LogError(err) == err

\* flux.Statistics; the zero value is what an iterator reports until it is released.
Stats(total) == [total |-> total]
ZeroStats == Stats(0)

\* A flux.ResultIterator: how often it was released and the statistics it ends with.
NoIterator == [present |-> FALSE, released |-> 0, final |-> ZeroStats]
NewIterator(total) == [present |-> TRUE, released |-> 0, final |-> Stats(total)]

Statistics(it) == IF it.released > 0 THEN it.final ELSE ZeroStats

\* What the collaborators of one Query call do: the inner QueryService ("ok": an
\* iterator that ends with statistics `final`; "err"; "panic"), the encoder
\* ("ok"/"err" after reporting `bytes`; "panic" after writing `bytes`), the
\* iterator's Err() ("nil", "err", "panic") and its Release() ("ok", "panic").
QueryInputs ==
    [org : Orgs, inner : {"ok", "err", "panic"}, final : 1 .. MaxStat,
     enc : {"ok", "err", "panic"}, bytes : 0 .. MaxBytes,
     iterErr : {"nil", "err", "panic"}, release : {"ok", "panic"}]

\* The ProxyRequest of a call.
ProxyRequest(in) == [org |-> in.org, dialect |-> "csv"]

\* The frame of a running Query: the named results n and err, the local stats, the
\* panic in flight ("": none), the iterator, whether the deferred release was
\* registered, the bytes the sink received, the calls made and the records logged.
NewFrame ==
    [n |-> 0, err |-> NoErr, stats |-> ZeroStats, panic |-> "", it |-> NoIterator,
     deferRelease |-> FALSE, sink |-> 0, calls |-> << >>, logs |-> << >>]

\* Lines 44-64: the body of Query, up to its return statement or its panic.
LoggingBody(in) ==
    LET f0 == NewFrame
        q  == Ev("QS.Query", ProxyRequest(in), [out |-> in.inner])
    IN IF in.inner = "panic"
       THEN [f0 EXCEPT !.panic = "query", !.calls = << q >>]
       ELSE IF in.inner = "err"
       THEN [f0 EXCEPT !.n = 0, !.err = LogError(ErrQuery), !.calls = << q >>]
       ELSE LET f1 == [f0 EXCEPT !.it = NewIterator(in.final), !.deferRelease = TRUE,
                                 !.calls = << q >>]
                e  == Ev("Encode", [bytes |-> in.bytes], [out |-> in.enc])
                f2 == [f1 EXCEPT !.sink = in.bytes, !.calls = Append(@, e)]
            IN IF in.enc = "panic" THEN [f2 EXCEPT !.panic = "encoder"]
               ELSE IF in.enc = "err"
               THEN [f2 EXCEPT !.n = in.bytes, !.err = LogError(ErrEncode)]
               ELSE LET f3 == [f2 EXCEPT !.n = in.bytes,
                                         !.calls = Append(@, Ev("Err", NoArg, [out |-> in.iterErr]))]
                    IN IF in.iterErr = "panic" THEN [f3 EXCEPT !.panic = "iterator"]
                       ELSE IF in.iterErr = "err"
                       THEN [f3 EXCEPT !.n = 0, !.err = LogError(ErrIter)]
                       ELSE [f3 EXCEPT !.n = in.bytes, !.err = NoErr]

\* Mutant: the statistics are read before the iterator is released.
DeferredRelease_StatsFirst(f, in) ==
    IF ~f.deferRelease THEN f
    ELSE LET st == Statistics(f.it)
             f1 == [f EXCEPT !.calls = Append(@, Ev("Statistics", NoArg, st))]
             it == [f.it EXCEPT !.released = @ + 1]
             f2 == [f1 EXCEPT !.it = it,
                              !.calls = Append(@, Ev("Release", NoArg, [out |-> in.release]))]
         IN IF in.release = "panic" THEN [f2 EXCEPT !.panic = "release"]
            ELSE [f2 EXCEPT !.stats = st]

\* Lines 50-53: the deferred release, run first when the function leaves (if it
\* was registered): results.Release(), then stats = results.Statistics().
DeferredRelease(f, in) ==
    IF ~f.deferRelease THEN f
    ELSE LET it == [f.it EXCEPT !.released = @ + 1]
             f1 == [f EXCEPT !.it = it,
                             !.calls = Append(@, Ev("Release", NoArg, [out |-> in.release]))]
         IN IF in.release = "panic" THEN [f1 EXCEPT !.panic = "release"]
            ELSE LET st == Statistics(it)
                 IN [f1 EXCEPT !.stats = st,
                               !.calls = Append(@, Ev("Statistics", NoArg, st))]

\* Mutant: the record's ResponseSize is what the sink received.
LogRecord_SinkSize(f, in) ==
    [org |-> in.org, req |-> ProxyRequest(in), size |-> f.sink, stats |-> f.stats,
     error |-> f.err]

\* The Log record of lines 31-40 (Time left out).
LogRecord(f, in) ==
    [org |-> in.org, req |-> ProxyRequest(in), size |-> f.n, stats |-> f.stats,
     error |-> f.err]

\* Mutant: a panic is not recovered; the record is written and the panic goes on.
DeferredLog_NoRecover(f, in) ==
    LET log == LogRecord(f, in)
    IN [f EXCEPT !.logs = Append(@, log), !.calls = Append(@, Ev("Log", log, NoArg))]

\* Mutant: the record is written only when the call failed.
DeferredLog_ErrorsOnly(f, in) ==
    LET f1  == IF f.panic # ""
               THEN [f EXCEPT !.err = PanicError(f.panic), !.panic = "",
                              !.calls = Append(@, Ev("recover", NoArg, [value |-> f.panic]))]
               ELSE f
        log == LogRecord(f1, in)
    IN IF IsErr(f1.err)
       THEN [f1 EXCEPT !.logs = Append(@, log), !.calls = Append(@, Ev("Log", log, NoArg))]
       ELSE f1

\* Lines 26-42: the deferred recover-and-log, run last.
DeferredLog(f, in) ==
    LET f1  == IF f.panic # ""
               THEN [f EXCEPT !.err = PanicError(f.panic), !.panic = "",
                              !.calls = Append(@, Ev("recover", NoArg, [value |-> f.panic]))]
               ELSE f
        log == LogRecord(f1, in)
    IN [f1 EXCEPT !.logs = Append(@, log), !.calls = Append(@, Ev("Log", log, NoArg))]

\* LoggingServiceBridge.Query: the body, then the deferred functions, last
\* registered first.
LoggingQuery(in) == DeferredLog(DeferredRelease(LoggingBody(in), in), in)

\* ------------------------------------------------------- query/bridges.go
\* strconv for the small numbers of a statistics value.
Digit == << "0", "1", "2", "3", "4", "5", "6", "7", "8", "9" >>

RECURSIVE Itoa(_)
Itoa(n) == IF n < 10 THEN Digit[n + 1] ELSE Itoa(n \div 10) \o Digit[(n % 10) + 1]

\* json.Marshal of a flux.Statistics value (with its metadata, when it has any).
Marshal(st) ==
    IF "bytes" \in DOMAIN st
    THEN "{\"total_duration\":" \o Itoa(st.total)
            \o ",\"metadata\":{\"influxdb/response-bytes\":[" \o Itoa(st.bytes) \o "]}}"
    ELSE "{\"total_duration\":" \o Itoa(st.total) \o "}"

queryStatisticsTrailer == "Influx-Query-Statistics"

\* The header map of an http.ResponseWriter: "" is a key that was never set.
NoHeader == [k \in {"Trailer", queryStatisticsTrailer} |-> ""]

\* w.Header().Set(key, value)
HeaderSet(f, key, value) ==
    [f EXCEPT !.header = [@ EXCEPT ![key] = value],
              !.calls = Append(@, Ev("Header.Set", [key |-> key, value |-> value], NoArg))]

\* What the collaborators of one ProxyQueryServiceBridge.Query call do: whether the
\* sink is an http.ResponseWriter, the inner QueryService, the encoder and the
\* iterator's Release(), as for the logging bridge; iterErr is what the iterator's
\* Err() holds after the encoding.
ProxyInputs ==
    [org : Orgs, http : BOOLEAN, inner : {"ok", "err", "panic"}, final : 1 .. MaxStat,
     enc : {"ok", "err", "panic"}, bytes : 0 .. MaxBytes, iterErr : {"nil", "err"},
     release : {"ok", "panic"}]

\* The frame of a running call: the results n and err, the panic in flight, the
\* iterator, whether its release is deferred, the bytes the sink received, the
\* sink's header map and the calls made.
NewProxyFrame ==
    [n |-> 0, err |-> NoErr, panic |-> "", it |-> NoIterator, deferRelease |-> FALSE,
     sink |-> 0, header |-> NoHeader, calls |-> << >>]

\* Mutant: the trailer is not announced.
ProxySetup_NoMarker(f, in) == f

\* Lines 43-46: the Trailer marker, when the sink is an http.ResponseWriter.
ProxySetup(f, in) ==
    IF in.http THEN HeaderSet(f, "Trailer", queryStatisticsTrailer) ELSE f

\* Lines 54-57: the statistics trailer, when the sink is an http.ResponseWriter.
ProxyTrailer(f, in) ==
    IF in.http
    THEN LET st == Statistics(f.it)
             f1 == [f EXCEPT !.calls = Append(@, Ev("Statistics", NoArg, st))]
         IN HeaderSet(f1, queryStatisticsTrailer, Marshal(st))
    ELSE f

\* Mutant: a failed encoding reports no bytes.
ProxyEncode_ZeroOnError(f, in) ==
    LET e  == Ev("Encode", [bytes |-> in.bytes], [out |-> in.enc])
        f1 == [f EXCEPT !.sink = in.bytes, !.calls = Append(@, e)]
    IN IF in.enc = "panic" THEN [f1 EXCEPT !.panic = "encoder"]
       ELSE IF in.enc = "err" THEN [f1 EXCEPT !.n = 0, !.err = LogError(ErrEncode)]
       ELSE [ProxyTrailer(f1, in) EXCEPT !.n = in.bytes]

\* Lines 48-59: the encoding; on its error the return of n and the error, else
\* the trailer and the return of n.
ProxyEncode(f, in) ==
    LET e  == Ev("Encode", [bytes |-> in.bytes], [out |-> in.enc])
        f1 == [f EXCEPT !.sink = in.bytes, !.calls = Append(@, e)]
    IN IF in.enc = "panic" THEN [f1 EXCEPT !.panic = "encoder"]
       ELSE IF in.enc = "err" THEN [f1 EXCEPT !.n = in.bytes, !.err = LogError(ErrEncode)]
       ELSE [ProxyTrailer(f1, in) EXCEPT !.n = in.bytes]

\* Lines 37-59: the body of Query, up to its return statement or its panic.
ProxyBody(in) ==
    LET f0 == NewProxyFrame
        q  == Ev("QS.Query", ProxyRequest(in), [out |-> in.inner])
    IN IF in.inner = "panic"
       THEN [f0 EXCEPT !.panic = "query", !.calls = << q >>]
       ELSE IF in.inner = "err"
       THEN [f0 EXCEPT !.n = 0, !.err = LogError(ErrQuery), !.calls = << q >>]
       ELSE LET f1 == [f0 EXCEPT !.it = NewIterator(in.final), !.deferRelease = TRUE,
                                 !.calls = << q >>]
            IN ProxyEncode(ProxySetup(f1, in), in)

\* Mutant: the iterator is released only when the call succeeded.
ProxyRelease_OnSuccessOnly(f, in) ==
    IF ~f.deferRelease \/ IsErr(f.err) \/ f.panic # "" THEN f
    ELSE LET f1 == [f EXCEPT !.it = [@ EXCEPT !.released = @ + 1],
                             !.calls = Append(@, Ev("Release", NoArg, [out |-> in.release]))]
         IN IF in.release = "panic" THEN [f1 EXCEPT !.panic = "release"] ELSE f1

\* Line 41: the deferred results.Release(), run when the function leaves (if it
\* was registered); nothing recovers a panic.
ProxyRelease(f, in) ==
    IF ~f.deferRelease THEN f
    ELSE LET f1 == [f EXCEPT !.it = [@ EXCEPT !.released = @ + 1],
                             !.calls = Append(@, Ev("Release", NoArg, [out |-> in.release]))]
         IN IF in.release = "panic" THEN [f1 EXCEPT !.panic = "release"] ELSE f1

\* ProxyQueryServiceBridge.Query: the body, then the deferred release.
ProxyQuery(in) == ProxyRelease(ProxyBody(in), in)

\* --------------------------------------------------- http/query_service.go
ErrDecode  == [kind |-> "invalid", msg |-> "decode failed"]
ErrMarshal == [kind |-> "internal", msg |-> "marshal failed"]

\* stats.Metadata.Add("influxdb/response-bytes", count)
WithResponseBytes(st, count) == [total |-> st.total, bytes |-> count]

\* What the collaborators of one handlePostQuery call do: the request decoder,
\* the QueryService, the encoder (it reports the bytes it wrote), the iterator's
\* Err(), json.Marshal of the statistics, and whether an OnFinishedHandler is set.
HandlerInputs ==
    [org : Orgs, decode : {"ok", "err"}, inner : {"ok", "err"}, final : 1 .. MaxStat,
     enc : {"ok", "err", "panic"}, bytes : 0 .. MaxBytes, iterErr : {"nil", "err"},
     marshal : {"ok", "err"}, observer : BOOLEAN]

\* The frame of a running handler: the panic in flight, the iterator, whether its
\* release is deferred, the body bytes and the error responses the client was
\* sent, the response's header map, the calls made, the lines logged and the
\* events handed to the OnFinishedHandler.
NewHandlerFrame ==
    [panic |-> "", it |-> NoIterator, deferRelease |-> FALSE, sink |-> 0,
     errors |-> << >>, header |-> NoHeader, calls |-> << >>, logs |-> << >>,
     events |-> << >>]

\* EncodeError(ctx, err, w): the structured error response.
EncodeError(f, err) ==
    [f EXCEPT !.errors = Append(@, err), !.calls = Append(@, Ev("EncodeError", err, NoArg))]

\* h.Logger.Info(msg, zap.Error(err))
LogInfo(f, msg, err) ==
    LET line == [msg |-> msg, error |-> err]
    IN [f EXCEPT !.logs = Append(@, line), !.calls = Append(@, Ev("Logger.Info", line, NoArg))]

\* Mutant: every encoding error is answered with an error response.
HandlerEncode_AlwaysRespond(f, in) ==
    LET f1 == [f EXCEPT !.calls = Append(@, Ev("SetHeaders", NoArg, NoArg))]
        e  == Ev("Encode", [bytes |-> in.bytes], [out |-> in.enc])
        f2 == [f1 EXCEPT !.sink = in.bytes, !.calls = Append(@, e)]
    IN IF in.enc = "panic" THEN [f2 EXCEPT !.panic = "encoder"]
       ELSE IF in.enc = "err" THEN EncodeError(f2, ErrEncode)
       ELSE f2

\* Lines 96-114: the encoding through the counting writer; on its error the
\* error response when nothing was written, else only a log line.
HandlerEncode(f, in) ==
    LET f1 == [f EXCEPT !.calls = Append(@, Ev("SetHeaders", NoArg, NoArg))]
        e  == Ev("Encode", [bytes |-> in.bytes], [out |-> in.enc])
        f2 == [f1 EXCEPT !.sink = in.bytes, !.calls = Append(@, e)]
        n  == in.bytes
    IN IF in.enc = "panic" THEN [f2 EXCEPT !.panic = "encoder"]
       ELSE IF in.enc = "err"
       THEN IF n = 0 THEN EncodeError(f2, ErrEncode)
            ELSE LogInfo(f2, "Failed to encode client response", ErrEncode)
       ELSE f2

\* Lines 119-137: the statistics with the response's byte count, the event for
\* the OnFinishedHandler, and the trailer.
HandlerTrailer(f, in) ==
    LET st    == Statistics(f.it)
        stats == WithResponseBytes(st, f.sink)
        f1    == [f EXCEPT !.calls = Append(@, Ev("Statistics", NoArg, st))]
        event == [org |-> in.org, stats |-> stats, count |-> f.sink,
                  err |-> IF in.iterErr = "err" THEN ErrIter ELSE NoErr]
        f2    == IF in.observer
                 THEN [f1 EXCEPT !.events = Append(@, event),
                                 !.calls = Append(@, Ev("Err", NoArg, [out |-> in.iterErr]))
                                              \o << Ev("OnFinishedHandler", event, NoArg) >>]
                 ELSE f1
    IN IF in.marshal = "err" THEN LogInfo(f2, "Failed to encode statistics", ErrMarshal)
       ELSE HeaderSet(f2, queryStatisticsTrailer, Marshal(stats))

\* Mutant: the statistics are read without the explicit release.
HandlerFinish_NoExplicitRelease(f, in) == HandlerTrailer(f, in)

\* Lines 116-137: the explicit results.Release(), then the statistics.
HandlerFinish(f, in) ==
    LET f1 == [f EXCEPT !.it = [@ EXCEPT !.released = @ + 1],
                        !.calls = Append(@, Ev("Release", [deferred |-> FALSE], NoArg))]
    IN HandlerTrailer(f1, in)

\* Lines 70-137: the body of handlePostQuery, up to its return or its panic.
HandlerBody(in) ==
    LET f0 == NewHandlerFrame
        d  == Ev("Decode", NoArg, [out |-> in.decode])
    IN IF in.decode = "err" THEN EncodeError([f0 EXCEPT !.calls = << d >>], ErrDecode)
       ELSE LET q  == Ev("QS.Query", [org |-> in.org], [out |-> in.inner])
                f1 == [f0 EXCEPT !.calls = << d, q >>]
            IN IF in.inner = "err" THEN EncodeError(f1, ErrQuery)
               ELSE LET f2 == [f1 EXCEPT !.it = NewIterator(in.final), !.deferRelease = TRUE]
                        f3 == HeaderSet(f2, "Trailer", queryStatisticsTrailer)
                        f4 == HandlerEncode(f3, in)
                    IN IF f4.panic # "" THEN f4 ELSE HandlerFinish(f4, in)

\* Line 84: the deferred results.Release(), run when the handler leaves (if it
\* was registered).
HandlerRelease(f, in) ==
    IF ~f.deferRelease THEN f
    ELSE [f EXCEPT !.it = [@ EXCEPT !.released = @ + 1],
                   !.calls = Append(@, Ev("Release", [deferred |-> TRUE], NoArg))]

\* QueryHandler.handlePostQuery: the body, then the deferred release.
handlePostQuery(in) == HandlerRelease(HandlerBody(in), in)

\* ------------------------------------------------------------- document.go
MaxDocs     == 2
MaxDocPerms == 2
MaxUses     == 2

DocumentsResourceType == "documents"
OrgsResourceType      == "orgs"

Docs  == 1 .. MaxDocs
Users == {9}

ErrIndex == [kind |-> "internal", msg |-> "index failed"]

\* &Error{Code: EUnauthorized, Msg: msg}
ErrUnauthorized(msg) == [kind |-> "unauthorized", msg |-> msg]

\* The IDs of a set as the index lists them: in ascending order.
RECURSIVE Ascending(_)
Ascending(S) == IF S = {} THEN << >> ELSE << Lowest(S) >> \o Ascending(S \ {Lowest(S)})

Range(s) == { s[i] : i \in DOMAIN s }

\* A DocumentIndex over the ownership graph: the documents each organization
\* owns, and for each user the documents it owns and the organizations it is in.
Indexes ==
    [orgDocs : [Orgs -> SUBSET Docs], userDocs : [Users -> SUBSET Docs],
     userOrgs : [Users -> SUBSET Orgs]]

\* idx.GetDocumentsAccessors(docID): the owners of a document; `fail` names the
\* index call that fails ("": none).
GetDocumentsAccessors(idx, docID, fail) ==
    IF fail = "GetDocumentsAccessors" THEN [val |-> << >>, err |-> ErrIndex]
    ELSE [val |-> Ascending({ o \in Orgs : docID \in idx.orgDocs[o] })
                     \o Ascending({ u \in Users : docID \in idx.userDocs[u] }),
          err |-> NoErr]

\* idx.GetAccessorsDocuments(ownerType, ownerID): the documents of an owner.
GetAccessorsDocuments(idx, ownerType, ownerID, fail) ==
    IF fail = "GetAccessorsDocuments." \o ownerType THEN [val |-> << >>, err |-> ErrIndex]
    ELSE IF ownerType = "org" /\ ownerID \in Orgs
    THEN [val |-> Ascending(idx.orgDocs[ownerID]), err |-> NoErr]
    ELSE IF ownerType = "user" /\ ownerID \in Users
    THEN [val |-> Ascending(idx.userDocs[ownerID]), err |-> NoErr]
    ELSE [val |-> << >>, err |-> NoErr]

\* idx.UsersOrgs(userID): the organizations of a user.
UsersOrgs(idx, userID, fail) ==
    IF fail = "UsersOrgs" THEN [val |-> << >>, err |-> ErrIndex]
    ELSE IF userID \in Users THEN [val |-> Ascending(idx.userOrgs[userID]), err |-> NoErr]
    ELSE [val |-> << >>, err |-> NoErr]

\* The permissions a token of the model may list, in the order it lists them.
TokenPerms ==
    << NewPermission(WriteAction, DocumentsResourceType, 1),
       NewPermissionAtID(1, WriteAction, DocumentsResourceType, 0),
       NewPermission(WriteAction, DocumentsResourceType, 0),
       NewPermission(ReadAction, DocumentsResourceType, 1),
       NewPermission(ReadAction, DocumentsResourceType, 2),
       NewPermission(WriteAction, OrgsResourceType, 1) >>

PermissionList(S) == [i \in 1 .. Cardinality(S) |-> TokenPerms[Ascending(S)[i]]]

\* The authorizers: an *Authorization (a token: active or not, with its
\* permission list) and any other Authorizer, known by its user ID.
Tokens ==
    { [kind |-> "token", active |-> act, user |-> 0, perms |-> PermissionList(S)] :
        act \in BOOLEAN,
        S \in { T \in SUBSET (DOMAIN TokenPerms) : Cardinality(T) <= MaxDocPerms } }
Sessions == { [kind |-> "user", active |-> TRUE, user |-> u, perms |-> << >>] : u \in Users }

\* Mutant: a Read permission counts like any other.
TokenPermits_ReadCounts(p, id, oids) ==
    \/ p.type = DocumentsResourceType /\ p.id # 0 /\ p.id = id
    \/ p.type = DocumentsResourceType /\ p.id = 0 /\ p.org = 0
    \/ p.type = DocumentsResourceType /\ p.org # 0 /\ p.org \in Range(oids)

\* Lines 103-118: what one permission of the loop decides.
TokenPermits(p, id, oids) ==
    /\ p.action # ReadAction
    /\ \/ p.type = DocumentsResourceType /\ p.id # 0 /\ p.id = id
       \/ p.type = DocumentsResourceType /\ p.id = 0 /\ p.org = 0
       \/ p.type = DocumentsResourceType /\ p.org # 0 /\ p.org \in Range(oids)

\* Lines 102-125: the loop over a.Permissions from the i-th on.
RECURSIVE TokenAuthorizedFrom(_, _, _, _)
TokenAuthorizedFrom(perms, i, id, oids) ==
    IF i > Len(perms) THEN ErrUnauthorized("authorization cannot access document")
    ELSE IF TokenPermits(perms[i], id, oids) THEN NoErr
    ELSE TokenAuthorizedFrom(perms, i + 1, id, oids)

\* TokenAuthorized(a)(id, idx): [err, calls].
TokenAuthorized(a, id, idx, fail) ==
    IF ~a.active
    THEN [err |-> ErrUnauthorized("authorizer cannot access document"), calls |-> << >>]
    ELSE LET acc == GetDocumentsAccessors(idx, id, fail)
             ev  == Ev("GetDocumentsAccessors", [id |-> id], acc)
         IN IF IsErr(acc.err) THEN [err |-> acc.err, calls |-> << ev >>]
            ELSE [err |-> TokenAuthorizedFrom(a.perms, 1, id, acc.val), calls |-> << ev >>]

\* Lines 259-266: the documents of the organizations from the i-th on are
\* appended to ids: [ids, err, calls].
RECURSIVE AppendOrgDocs(_, _, _, _, _)
AppendOrgDocs(orgIDs, i, ids, idx, fail) ==
    IF i > Len(orgIDs) THEN [ids |-> ids, err |-> NoErr, calls |-> << >>]
    ELSE LET d  == GetAccessorsDocuments(idx, "org", orgIDs[i], fail)
             ev == Ev("GetAccessorsDocuments", [type |-> "org", id |-> orgIDs[i]], d)
         IN IF IsErr(d.err) THEN [ids |-> ids, err |-> d.err, calls |-> << ev >>]
            ELSE LET r == AppendOrgDocs(orgIDs, i + 1, ids \o d.val, idx, fail)
                 IN [r EXCEPT !.calls = << ev >> \o @]

\* Lines 246-269: the predicate AuthorizedWhere(a) returns for an authorizer that
\* is no token, invoked with `ids` what the captured slice holds:
\* [ids (the captured slice afterwards), val, err, calls].
UserWhere(a, ids, idx, fail) ==
    LET d  == GetAccessorsDocuments(idx, "user", a.user, fail)
        e1 == Ev("GetAccessorsDocuments", [type |-> "user", id |-> a.user], d)
    IN IF IsErr(d.err) THEN [ids |-> ids, val |-> << >>, err |-> d.err, calls |-> << e1 >>]
       ELSE LET ids1 == ids \o d.val
                o    == UsersOrgs(idx, a.user, fail)
                e2   == Ev("UsersOrgs", [id |-> a.user], o)
            IN IF IsErr(o.err)
               THEN [ids |-> ids1, val |-> << >>, err |-> o.err, calls |-> << e1, e2 >>]
               ELSE LET r == AppendOrgDocs(o.val, 1, ids1, idx, fail)
                    IN IF IsErr(r.err)
                       THEN [ids |-> r.ids, val |-> << >>, err |-> r.err,
                             calls |-> << e1, e2 >> \o r.calls]
                       ELSE [ids |-> r.ids, val |-> r.ids, err |-> NoErr,
                             calls |-> << e1, e2 >> \o r.calls]

\* Lines 283-295: the loop over a.Permissions from the i-th on: [ids, err, calls].
RECURSIVE AppendPermittedDocs(_, _, _, _, _)
AppendPermittedDocs(perms, i, ids, idx, fail) ==
    IF i > Len(perms) THEN [ids |-> ids, err |-> NoErr, calls |-> << >>]
    ELSE LET p    == perms[i]
             org  == p.type = DocumentsResourceType /\ p.org # 0
             d    == GetAccessorsDocuments(idx, "org", p.org, fail)
             ev   == Ev("GetAccessorsDocuments", [type |-> "org", id |-> p.org], d)
         IN IF org /\ IsErr(d.err) THEN [ids |-> ids, err |-> d.err, calls |-> << ev >>]
            ELSE LET ids1 == IF org THEN ids \o d.val ELSE ids
                     ids2 == IF p.type = DocumentsResourceType /\ p.id # 0
                             THEN Append(ids1, p.id) ELSE ids1
                     r    == AppendPermittedDocs(perms, i + 1, ids2, idx, fail)
                 IN [r EXCEPT !.calls = (IF org THEN << ev >> ELSE << >>) \o @]

\* Lines 275-298: the predicate TokenAuthorizedWhere(a) returns, invoked with
\* `ids` what the captured slice holds.
TokenWhere(a, ids, idx, fail) ==
    IF ~a.active
    THEN [ids |-> ids, val |-> << >>,
          err |-> ErrUnauthorized("authorizer cannot access documents"), calls |-> << >>]
    ELSE LET r == AppendPermittedDocs(a.perms, 1, ids, idx, fail)
         IN IF IsErr(r.err) THEN [ids |-> r.ids, val |-> << >>, err |-> r.err, calls |-> r.calls]
            ELSE [ids |-> r.ids, val |-> r.ids, err |-> NoErr, calls |-> r.calls]

\* Lines 239-245: AuthorizedWhere(a) hands a token to TokenAuthorizedWhere.
AuthorizedWhere(a, ids, idx, fail) ==
    IF a.kind = "token" THEN TokenWhere(a, ids, idx, fail) ELSE UserWhere(a, ids, idx, fail)

\* The names organizations are known by, and one no organization has.
OrgName(o) == "org" \o Itoa(o)
OrgNames   == { OrgName(o) : o \in Orgs } \cup {"nobody"}

ErrOrgNotFound == [kind |-> "not found", msg |-> "organization not found"]
ErrNotAccessor == [kind |-> "unauthorized", msg |-> "user is not org accessor"]

\* idx.FindOrganizationByName(n): the ID of the organization of that name.
FindOrganizationByName(idx, n) ==
    IF \E o \in Orgs : OrgName(o) = n
    THEN [val |-> CHOOSE o \in Orgs : OrgName(o) = n, err |-> NoErr]
    ELSE [val |-> 0, err |-> ErrOrgNotFound]

\* idx.IsOrgAccessor(userID, orgID): nil when the user is in the organization.
IsOrgAccessor(idx, userID, orgID) ==
    IF userID \in Users /\ orgID \in idx.userOrgs[userID] THEN NoErr ELSE ErrNotAccessor

\* idx.AddDocumentOwner(docID, ownerType, ownerID): the owner is added to the
\* ownership graph: [idx, err].
AddDocumentOwner(idx, docID, ownerType, ownerID, fail) ==
    IF fail = "AddDocumentOwner" THEN [idx |-> idx, err |-> ErrIndex]
    ELSE IF ownerType = "org" /\ ownerID \in Orgs
    THEN [idx |-> [idx EXCEPT !.orgDocs[ownerID] = @ \cup {docID}], err |-> NoErr]
    ELSE IF ownerType = "user" /\ ownerID \in Users
    THEN [idx |-> [idx EXCEPT !.userDocs[ownerID] = @ \cup {docID}], err |-> NoErr]
    ELSE [idx |-> idx, err |-> NoErr]

\* Lines 48-57: WithOrg(org)(id, idx): [err, calls, idx].
WithOrg(org, id, idx, fail) ==
    LET o  == FindOrganizationByName(idx, org)
        e1 == Ev("FindOrganizationByName", [name |-> org], o)
    IN IF IsErr(o.err) THEN [err |-> o.err, calls |-> << e1 >>, idx |-> idx]
       ELSE LET w == AddDocumentOwner(idx, id, "org", o.val, fail)
            IN [err |-> w.err, idx |-> w.idx,
                calls |-> << e1, Ev("AddDocumentOwner",
                                    [id |-> id, type |-> "org", owner |-> o.val],
                                    [err |-> w.err]) >>]

\* Lines 149-180: TokenAuthorizedWithOrg(a, org)(id, idx). a.Allowed(p) is asked
\* of an active token only: some permission of its list matches p.
TokenAuthorizedWithOrg(a, org, id, idx, fail) ==
    IF ~a.active
    THEN [err |-> ErrUnauthorized("authorization cannot add org as document owner"),
          calls |-> << >>, idx |-> idx]
    ELSE LET o  == FindOrganizationByName(idx, org)
             e1 == Ev("FindOrganizationByName", [name |-> org], o)
         IN IF IsErr(o.err) THEN [err |-> o.err, calls |-> << e1 >>, idx |-> idx]
            ELSE LET p  == NewPermission(WriteAction, DocumentsResourceType, o.val)
                     ok == \E i \in DOMAIN a.perms : Matches(a.perms[i], p)
                     e2 == Ev("Allowed", p, [ok |-> ok])
                 IN IF ~ok
                    THEN [err |-> ErrUnauthorized("authorization cannot add org as document owner"),
                          calls |-> << e1, e2 >>, idx |-> idx]
                    ELSE LET w == AddDocumentOwner(idx, id, "org", o.val, fail)
                         IN [err |-> w.err, idx |-> w.idx,
                             calls |-> << e1, e2,
                                          Ev("AddDocumentOwner",
                                             [id |-> id, type |-> "org", owner |-> o.val],
                                             [err |-> w.err]) >>]

\* Lines 129-147: AuthorizedWithOrg(a, org)(id, idx): a token goes to
\* TokenAuthorizedWithOrg; any other authorizer must be an accessor of the
\* organization.
AuthorizedWithOrg(a, org, id, idx, fail) ==
    IF a.kind = "token" THEN TokenAuthorizedWithOrg(a, org, id, idx, fail)
    ELSE LET o  == FindOrganizationByName(idx, org)
             e1 == Ev("FindOrganizationByName", [name |-> org], o)
         IN IF IsErr(o.err) THEN [err |-> o.err, calls |-> << e1 >>, idx |-> idx]
            ELSE LET acc == IsOrgAccessor(idx, a.user, o.val)
                     e2  == Ev("IsOrgAccessor", [user |-> a.user, org |-> o.val], [err |-> acc])
                 IN IF IsErr(acc) THEN [err |-> acc, calls |-> << e1, e2 >>, idx |-> idx]
                    ELSE LET w == AddDocumentOwner(idx, id, "org", o.val, fail)
                         IN [err |-> w.err, idx |-> w.idx,
                             calls |-> << e1, e2,
                                          Ev("AddDocumentOwner",
                                             [id |-> id, type |-> "org", owner |-> o.val],
                                             [err |-> w.err]) >>]

\* ------------------------------------------- the decision of validatePermission
MaxHeld == 2

\* The permissions a principal may hold and those an operation may require: both
\* actions, two resource types, and every scope (none, an organization, a
\* resource, a resource in its organization).
Scopes == { [id |-> 0, org |-> 0], [id |-> 0, org |-> 1], [id |-> 0, org |-> 2],
            [id |-> 1, org |-> 0], [id |-> 2, org |-> 0], [id |-> 1, org |-> 1] }

HeldPerms ==
    { NewPermissionAtID(s.id, action, type, s.org) :
        action \in {ReadAction, WriteAction},
        type \in {TasksResourceType, BucketsResourceType},
        s \in Scopes }

RequiredPerms ==
    { NewPermissionAtID(id, action, type, org) :
        action \in {ReadAction, WriteAction},
        type \in {TasksResourceType, BucketsResourceType},
        id \in 0 .. 2, org \in 0 .. 2 }

Holders ==
    { [present |-> TRUE, ident |-> 7, perms |-> ps] :
        ps \in { S \in SUBSET HeldPerms : Cardinality(S) <= MaxHeld } }

\* ---------------------------- http/query_service.go: statsResultIterator
MaxItems    == 2
MaxReleases == 2

ErrUnmarshal == [kind |-> "internal", msg |-> "invalid character in statistics"]

\* The numbers the decoder of the model reads.
MaxDecoded == 9

\* The JSON texts of statistics: of a total alone, and of a total with the
\* response-bytes metadata.
PlainTexts == [k \in 0 .. MaxDecoded |-> Marshal(Stats(k))]
MetaTexts  ==
    [kb \in (0 .. MaxDecoded) \X (0 .. MaxDecoded) |->
        Marshal(WithResponseBytes(Stats(kb[1]), kb[2]))]

\* json.Unmarshal(data, &statistics): the fields the text names are written
\* into the value and the others stay as they were ("{}" and "null" name none);
\* a text that is no JSON leaves the value as it was and is an error.
Unmarshal(data, old) ==
    IF data \in {"{}", "null"} THEN [val |-> old, err |-> NoErr]
    ELSE IF \E k \in DOMAIN PlainTexts : PlainTexts[k] = data
    THEN LET k == CHOOSE k \in DOMAIN PlainTexts : PlainTexts[k] = data
         IN [val |-> IF "bytes" \in DOMAIN old
                     THEN WithResponseBytes(Stats(k), old.bytes) ELSE Stats(k),
             err |-> NoErr]
    ELSE IF \E kb \in DOMAIN MetaTexts : MetaTexts[kb] = data
    THEN LET kb == CHOOSE kb \in DOMAIN MetaTexts : MetaTexts[kb] = data
         IN [val |-> WithResponseBytes(Stats(kb[1]), kb[2]), err |-> NoErr]
    ELSE [val |-> old, err |-> ErrUnmarshal]

\* The trailers a response may carry under Influx-Query-Statistics: none, the
\* JSON of some statistics (with the response-bytes metadata or without), a
\* JSON text that names no field, or a text that is no JSON.
Trailers ==
    {"", "{}", "{total_duration"}
        \cup { Marshal(Stats(k)) : k \in 1 .. MaxStat }
        \cup { Marshal(WithResponseBytes(Stats(k), MaxBytes)) : k \in 1 .. MaxStat }

\* &statsResultIterator{results: results, resp: resp}: the underlying iterator
\* (results left, its error, how often it was released), the response's
\* trailer, the statistics and the error read off it, and how often readStats ran.
NewStatsResultIterator(left, uerr, trailer) ==
    [results |-> [left |-> left, err |-> uerr, released |-> 0], trailer |-> trailer,
     statisitcs |-> ZeroStats, err |-> NoErr, reads |-> 0]

\* Lines 229-231: More().
SRI_More(s) == s.results.left > 0

\* Lines 233-235: Next() takes the next result off the underlying iterator.
SRI_Next(s) == [s EXCEPT !.results.left = @ - 1]

\* Lines 255-260: readStats().
readStats(s) ==
    LET data == s.trailer
        s1   == [s EXCEPT !.reads = @ + 1]
    IN IF data # ""
       THEN LET u == Unmarshal(data, s.statisitcs)
            IN [s1 EXCEPT !.statisitcs = u.val, !.err = u.err]
       ELSE s1

\* Lines 237-240: Release().
SRI_Release(s) == readStats([s EXCEPT !.results.released = @ + 1])

\* Mutant: the decoding error is reported before the underlying one.
SRI_Err_OwnFirst(s) == IF IsErr(s.err) THEN s.err ELSE s.results.err

\* Lines 242-248: Err().
SRI_Err(s) == IF IsErr(s.results.err) THEN s.results.err ELSE s.err

\* Lines 250-252: Statistics().
SRI_Statistics(s) == s.statisitcs

\* ------------------------------------------------------------------ state
VARIABLES
    auth,     \* the authorizer the caller's context carries (NoAuth: none)
    store,    \* the tasks the wrapped TaskService holds
    last,     \* the last Validator call: [op, arg, calls, ret]
    lq,       \* the last LoggingServiceBridge.Query call: its input and final frame
    pq,       \* the last ProxyQueryServiceBridge.Query call: its input and final frame
    hq,       \* the last handlePostQuery call: its input and final frame
    dc,       \* the documents: an authorizer, the index, the slice the predicate
              \* of AuthorizedWhere captured, its invocations, and the last call
    pe,       \* a permission check: the principal, the permission required and
              \* what validatePermission answered
    si        \* a statsResultIterator, with the last call made on it

vars == << auth, store, last, lq, pq, hq, dc, pe, si >>
taskVars == << auth, store, last >>

RunIDs   == {5}
Schedule == {100}

NoCall == [op |-> "none", arg |-> NoArg, calls |-> << >>,
           ret |-> [val |-> NoVal, err |-> NoErr]]

\* The caller's context is any principal (or none); the persistence layer
\* already holds any tasks, written earlier by whichever principals.
NoQuery == [called |-> FALSE, in |-> CHOOSE in \in QueryInputs : TRUE, f |-> NewFrame]
DocNoCall == [op |-> "none", arg |-> NoArg, fail |-> "", calls |-> << >>,
              ret |-> [val |-> << >>, err |-> NoErr]]
NoIndex == [orgDocs |-> [o \in Orgs |-> {}], userDocs |-> [u \in Users |-> {}],
            userOrgs |-> [u \in Users |-> {}]]
NoCheck == [done |-> FALSE, a |-> [present |-> TRUE, ident |-> 7, perms |-> {}],
            perm |-> NoPerm, res |-> [err |-> NoErr, calls |-> << >>]]
NoRequest == [called |-> FALSE, in |-> CHOOSE in \in HandlerInputs : TRUE, f |-> NewHandlerFrame]
NoProxy == [called |-> FALSE, in |-> CHOOSE in \in ProxyInputs : TRUE, f |-> NewProxyFrame]

\* A component that is not part of the run: nothing calls it.
Unused == [called |-> FALSE]

TasksIdle   == auth = NoAuth /\ store = EmptyStore /\ last = NoCall
LoggingIdle == lq = Unused
ProxyIdle   == pq = Unused
HandlerIdle == hq = Unused
DocsIdle    == dc = Unused
ChecksIdle  == pe = Unused
IterIdle    == si = Unused

Init ==
    /\ auth \in {NoAuth} \cup Principals
    /\ store \in InitialStores
    /\ last = NoCall
    /\ LoggingIdle
    /\ ProxyIdle
    /\ HandlerIdle
    /\ DocsIdle
    /\ ChecksIdle
    /\ IterIdle

\* A Validator call: the outcome `r` of operation `op` on argument `arg`.
Call(op, arg, r) ==
    /\ last' = [op |-> op, arg |-> arg, calls |-> r.calls, ret |-> r.ret]
    /\ store' = r.store
    /\ UNCHANGED << auth, lq, pq, hq, dc, pe, si >>

DoFindTaskByID ==
    \E id \in TaskIDs :
        Call("FindTaskByID", [id |-> id], FindTaskByID(auth, store, id))

DoFindTasks ==
    \E org \in {0} \cup Orgs, limit \in 1 .. MaxTasks, fail \in BOOLEAN :
        LET filter == [org |-> org, limit |-> limit]
        IN Call("FindTasks", filter, FindTasks(auth, store, filter, fail))

DoCreateTask ==
    \E org \in Orgs, flux \in Scripts, fail \in BOOLEAN :
        LET t == [org |-> org, flux |-> flux]
        IN Call("CreateTask", t, CreateTask(auth, store, t, fail))

DoUpdateTask ==
    \E id \in TaskIDs, flux \in {""} \cup Scripts, fail \in BOOLEAN :
        LET upd == [flux |-> flux]
        IN Call("UpdateTask", [id |-> id, upd |-> upd], UpdateTask(auth, store, id, upd, fail))

DoDeleteTask ==
    \E id \in TaskIDs, fail \in BOOLEAN :
        Call("DeleteTask", [id |-> id], DeleteTask(auth, store, id, fail))

DoFindLogs ==
    \E id \in TaskIDs, fail \in BOOLEAN :
        LET filter == [task |-> id]
        IN Call("FindLogs", filter, FindLogs(auth, store, filter, fail))

DoFindRuns ==
    \E id \in TaskIDs, fail \in BOOLEAN :
        LET filter == [task |-> id]
        IN Call("FindRuns", filter, FindRuns(auth, store, filter, fail))

DoFindRunByID ==
    \E id \in TaskIDs, run \in RunIDs, fail \in BOOLEAN :
        Call("FindRunByID", [task |-> id, run |-> run],
             FindRunByID(auth, store, id, run, fail))

DoCancelRun ==
    \E id \in TaskIDs, run \in RunIDs, fail \in BOOLEAN :
        Call("CancelRun", [task |-> id, run |-> run],
             CancelRun(auth, store, id, run, fail))

DoRetryRun ==
    \E id \in TaskIDs, run \in RunIDs, fail \in BOOLEAN :
        Call("RetryRun", [task |-> id, run |-> run],
             RetryRun(auth, store, id, run, fail))

DoForceRun ==
    \E id \in TaskIDs, at \in Schedule, fail \in BOOLEAN :
        Call("ForceRun", [task |-> id, scheduledFor |-> at],
             ForceRun(auth, store, id, at, fail))

Next ==
    \/ DoFindTaskByID
    \/ DoFindTasks
    \/ DoCreateTask
    \/ DoUpdateTask
    \/ DoDeleteTask
    \/ DoFindLogs
    \/ DoFindRuns
    \/ DoFindRunByID
    \/ DoCancelRun
    \/ DoRetryRun
    \/ DoForceRun

Spec == Init /\ [][Next]_vars

\* The logging bridge on its own: one Query call after the other.
InitLogging ==
    /\ TasksIdle
    /\ IterIdle
    /\ lq = NoQuery
    /\ ProxyIdle
    /\ HandlerIdle
    /\ DocsIdle
    /\ ChecksIdle

DoLoggingQuery ==
    \E in \in QueryInputs :
        /\ lq' = [called |-> TRUE, in |-> in, f |-> LoggingQuery(in)]
        /\ UNCHANGED << taskVars, pq, hq, dc, pe, si >>

NextLogging == DoLoggingQuery

SpecLogging == InitLogging /\ [][NextLogging]_vars

\* The proxy bridge on its own: one Query call after the other.
InitProxy ==
    /\ TasksIdle
    /\ IterIdle
    /\ LoggingIdle
    /\ pq = NoProxy
    /\ HandlerIdle
    /\ DocsIdle
    /\ ChecksIdle

DoProxyQuery ==
    \E in \in ProxyInputs :
        /\ pq' = [called |-> TRUE, in |-> in, f |-> ProxyQuery(in)]
        /\ UNCHANGED << taskVars, lq, hq, dc, pe, si >>

NextProxy == DoProxyQuery

SpecProxy == InitProxy /\ [][NextProxy]_vars

\* The HTTP query handler on its own: one request after the other.
InitHandler ==
    /\ TasksIdle
    /\ IterIdle
    /\ LoggingIdle
    /\ ProxyIdle
    /\ hq = NoRequest
    /\ DocsIdle
    /\ ChecksIdle

DoPostQuery ==
    \E in \in HandlerInputs :
        /\ hq' = [called |-> TRUE, in |-> in, f |-> handlePostQuery(in)]
        /\ UNCHANGED << taskVars, lq, pq, dc, pe, si >>

NextHandler == DoPostQuery

SpecHandler == InitHandler /\ [][NextHandler]_vars

\* The document predicates on their own. A caller holds an authorizer and the
\* predicate AuthorizedWhere(a) made for it, over an index that holds any
\* ownership graph (a token is no user: the index knows the users of sessions).
InitDocs ==
    /\ TasksIdle
    /\ IterIdle
    /\ LoggingIdle
    /\ ProxyIdle
    /\ HandlerIdle
    /\ ChecksIdle
    /\ \E a \in Tokens \cup Sessions, idx \in Indexes :
          /\ a.kind = "token" => (idx.userDocs = NoIndex.userDocs /\ idx.userOrgs = NoIndex.userOrgs)
          /\ dc = [a |-> a, idx |-> idx, ids |-> << >>, uses |-> 0, last |-> DocNoCall]

\* TokenAuthorized(a)(id, idx)
DoTokenAuthorized ==
    /\ dc.a.kind = "token"
    /\ \E id \in Docs, fail \in {"", "GetDocumentsAccessors"} :
          LET r == TokenAuthorized(dc.a, id, dc.idx, fail)
          IN dc' = [dc EXCEPT !.last = [op |-> "TokenAuthorized", arg |-> [id |-> id],
                                         fail |-> fail, calls |-> r.calls,
                                         ret |-> [val |-> << >>, err |-> r.err]]]
    /\ UNCHANGED << taskVars, lq, pq, hq, pe, si >>

\* AuthorizedWhere(a): a new predicate value, its captured slice nil.
DoAuthorizedWhere ==
    /\ dc' = [dc EXCEPT !.ids = << >>, !.uses = 0,
                        !.last = [DocNoCall EXCEPT !.op = "AuthorizedWhere"]]
    /\ UNCHANGED << taskVars, lq, pq, hq, pe, si >>

\* An invocation of the predicate value the caller holds.
DoWhere ==
    /\ dc.uses < MaxUses
    /\ \E fail \in {"", "GetAccessorsDocuments.user", "UsersOrgs", "GetAccessorsDocuments.org"} :
          LET r == AuthorizedWhere(dc.a, dc.ids, dc.idx, fail)
          IN dc' = [dc EXCEPT !.ids = r.ids, !.uses = @ + 1,
                              !.last = [op |-> "Where", arg |-> [use |-> dc.uses + 1],
                                        fail |-> fail, calls |-> r.calls,
                                        ret |-> [val |-> r.val, err |-> r.err]]]
    /\ UNCHANGED << taskVars, lq, pq, hq, pe, si >>

\* A create-side predicate that names an organization: [err, calls, idx] is
\* what it answered; the index is what it left.
OwnerCall(op, org, id, fail, r) ==
    /\ dc' = [dc EXCEPT !.idx = r.idx,
                        !.last = [op |-> op, arg |-> [org |-> org, id |-> id],
                                  fail |-> fail, calls |-> r.calls,
                                  ret |-> [val |-> << >>, err |-> r.err]]]
    /\ UNCHANGED << taskVars, lq, pq, hq, pe, si >>

\* WithOrg(org)(id, idx)
DoWithOrg ==
    \E org \in OrgNames, id \in Docs, fail \in {"", "AddDocumentOwner"} :
        OwnerCall("WithOrg", org, id, fail, WithOrg(org, id, dc.idx, fail))

\* AuthorizedWithOrg(a, org)(id, idx)
DoAuthorizedWithOrg ==
    \E org \in OrgNames, id \in Docs, fail \in {"", "AddDocumentOwner"} :
        OwnerCall("AuthorizedWithOrg", org, id, fail,
                  AuthorizedWithOrg(dc.a, org, id, dc.idx, fail))

\* TokenAuthorizedWithOrg(a, org)(id, idx)
DoTokenAuthorizedWithOrg ==
    /\ dc.a.kind = "token"
    /\ \E org \in OrgNames, id \in Docs, fail \in {"", "AddDocumentOwner"} :
          OwnerCall("TokenAuthorizedWithOrg", org, id, fail,
                    TokenAuthorizedWithOrg(dc.a, org, id, dc.idx, fail))

NextDocs ==
    \/ DoTokenAuthorized
    \/ DoAuthorizedWhere
    \/ DoWhere

SpecDocs == InitDocs /\ [][NextDocs]_vars

\* The create side of the documents: a new index, in which no organization owns
\* a document yet; the create-side predicates add the owners.
InitOwners ==
    /\ TasksIdle
    /\ IterIdle
    /\ LoggingIdle
    /\ ProxyIdle
    /\ HandlerIdle
    /\ ChecksIdle
    /\ \E a \in Tokens \cup Sessions, idx \in Indexes :
          /\ idx.orgDocs = NoIndex.orgDocs /\ idx.userDocs = NoIndex.userDocs
          /\ a.kind = "token" => idx.userOrgs = NoIndex.userOrgs
          /\ dc = [a |-> a, idx |-> idx, ids |-> << >>, uses |-> 0, last |-> DocNoCall]

NextOwners ==
    \/ DoWithOrg
    \/ DoAuthorizedWithOrg
    \/ DoTokenAuthorizedWithOrg
    \/ DoTokenAuthorized

SpecOwners == InitOwners /\ [][NextOwners]_vars

\* validatePermission on its own: any principal, any permission required.
InitChecks ==
    /\ TasksIdle
    /\ IterIdle
    /\ LoggingIdle
    /\ ProxyIdle
    /\ HandlerIdle
    /\ DocsIdle
    /\ \E a \in Holders, perm \in RequiredPerms :
          pe = [NoCheck EXCEPT !.a = a, !.perm = perm]

DoValidatePermission ==
    /\ ~pe.done
    /\ pe' = [pe EXCEPT !.done = TRUE, !.res = validatePermission(pe.a, pe.perm)]
    /\ UNCHANGED << taskVars, lq, pq, hq, dc, si >>

NextChecks == DoValidatePermission

SpecChecks == InitChecks /\ [][NextChecks]_vars

\* A statsResultIterator over any response: the results left, the underlying
\* iterator's error and the trailer are the response's.
NoIterCall == [op |-> "none", res |-> NoVal]

InitIter ==
    /\ TasksIdle
    /\ LoggingIdle
    /\ ProxyIdle
    /\ HandlerIdle
    /\ DocsIdle
    /\ ChecksIdle
    /\ \E left \in 0 .. MaxItems, uerr \in {NoErr, ErrIter}, trailer \in Trailers :
          si = [s |-> NewStatsResultIterator(left, uerr, trailer),
                before |-> NewStatsResultIterator(left, uerr, trailer),
                last |-> NoIterCall]

IterCall(op, res, s) ==
    /\ si' = [s |-> s, before |-> si.s, last |-> [op |-> op, res |-> res]]
    /\ UNCHANGED << taskVars, lq, pq, hq, dc, pe >>

DoMore == IterCall("More", [ok |-> SRI_More(si.s)], si.s)

DoNext ==
    /\ SRI_More(si.s)
    /\ IterCall("Next", NoVal, SRI_Next(si.s))

DoRelease ==
    /\ si.s.results.released < MaxReleases
    /\ IterCall("Release", NoVal, SRI_Release(si.s))

DoErr == IterCall("Err", [err |-> SRI_Err(si.s)], si.s)

DoStatistics == IterCall("Statistics", [stats |-> SRI_Statistics(si.s)], si.s)

NextIter ==
    \/ DoMore
    \/ DoNext
    \/ DoRelease
    \/ DoErr
    \/ DoStatistics

SpecIter == InitIter /\ [][NextIter]_vars

\* ===================================================== claims: the Validator
\* What the claims read off the last call.
WrappedFn == "TS." \o last.op

Indices(fn) == { i \in DOMAIN last.calls : last.calls[i].fn = fn }
Invoked(fn) == Indices(fn) # {}
Count(fn)   == Cardinality(Indices(fn))
TheCall(fn) == last.calls[CHOOSE i \in Indices(fn) : TRUE]

MutatingOps == {"CreateTask", "UpdateTask", "DeleteTask", "CancelRun", "RetryRun", "ForceRun"}
ByIDOps     == {"FindTaskByID", "UpdateTask", "DeleteTask", "FindLogs", "FindRuns",
                "FindRunByID", "CancelRun", "RetryRun", "ForceRun"}
ScriptOps   == {"CreateTask", "UpdateTask"}

\* The task ID a by-ID call names.
TaskIDOf ==
    IF last.op \in {"FindTaskByID", "UpdateTask", "DeleteTask"} THEN last.arg.id
    ELSE last.arg.task

\* The unauthenticated lookup a by-ID call starts with, and whether it found the task.
Lookup == last.calls[1].res
Found  == last.op \in ByIDOps /\ ~IsErr(Lookup.err)

\* The permission on the task that a call is about, for an action.
TaskPerm(action) ==
    IF last.op = "CreateTask" THEN NewPermission(action, TasksResourceType, last.arg.org)
    ELSE NewPermissionAtID(TaskIDOf, action, TasksResourceType, Lookup.val.org)

Holds(perm) == auth.present /\ Allowed(auth, perm)

\* The script CreateTask and UpdateTask hand to validateBucket.
ValidatedScript == IF last.op = "CreateTask" THEN last.arg.flux ELSE Lookup.val.flux

RefPerm(ref) == NewPermissionAtID(ref.bucket, ref.effect, BucketsResourceType, ref.org)

PlanAuthorized(script) ==
    LET plan == Compile(script).plan
    IN \A i \in DOMAIN plan : Holds(RefPerm(plan[i]))

\* C1: a mutating operation whose principal is not Allowed Write on tasks (at the
\* organization for CreateTask, at the task's ID and organization for the others)
\* returns an error and never reaches the wrapped mutating operation; a principal
\* holding only Read permissions never causes a wrapped CreateTask.
C1_NoWriteNoMutation ==
    /\ ( /\ last.op \in MutatingOps
         /\ (last.op = "CreateTask" \/ Found)
         /\ ~Holds(TaskPerm(WriteAction)) )
       => (IsErr(last.ret.err) /\ ~Invoked(WrappedFn))
    /\ ( /\ last.op = "CreateTask"
         /\ \A p \in auth.perms : p.action = ReadAction )
       => (IsErr(last.ret.err) /\ ~Invoked("TS.CreateTask"))

C1_Witness ==
    /\ last.op = "CreateTask"
    /\ auth.present
    /\ auth.perms # {}
    /\ \A p \in auth.perms : p.action = ReadAction
    /\ Holds(TaskPerm(ReadAction))
    /\ last.ret.err.kind = "authError"
    /\ ~Invoked("TS.CreateTask")

\* C2: CreateTask and UpdateTask reach the wrapped operation only after Compile and
\* then PreAuthorize have succeeded on the script handed to validateBucket, every
\* bucket of the plan being Allowed; a compile failure or one bucket that is not
\* Allowed gives an error and no wrapped call; and when the permission check on the
\* task fails neither Compile nor PreAuthorize is called.
C2_PreAuthorizeBeforePersist ==
    (last.op \in ScriptOps /\ (last.op = "CreateTask" \/ Found)) =>
        /\ Invoked(WrappedFn) =>
             /\ \E i, j, k \in DOMAIN last.calls :
                  /\ i < j /\ j < k
                  /\ last.calls[i].fn = "Compile" /\ ~IsErr(last.calls[i].res.err)
                  /\ last.calls[i].arg.script = ValidatedScript
                  /\ last.calls[j].fn = "PreAuthorize" /\ ~IsErr(last.calls[j].res.err)
                  /\ last.calls[k].fn = WrappedFn
             /\ PlanAuthorized(ValidatedScript)
        /\ (IsErr(Compile(ValidatedScript).err) \/ ~PlanAuthorized(ValidatedScript))
             => (IsErr(last.ret.err) /\ ~Invoked(WrappedFn))
        /\ ~Holds(TaskPerm(WriteAction))
             => (~Invoked("Compile") /\ ~Invoked("PreAuthorize"))

C2_Witness ==
    /\ last.op = "CreateTask"
    /\ last.arg.flux = "fromAtoB"
    /\ Holds(TaskPerm(WriteAction))
    /\ Holds(RefPerm(BucketRef(1, 1, ReadAction)))
    /\ ~Holds(RefPerm(BucketRef(2, 2, WriteAction)))
    /\ Invoked("PreAuthorize")
    /\ last.ret.err.kind = "invalid"
    /\ ~Invoked("TS.CreateTask")

ReadRunOps  == {"FindLogs", "FindRuns", "FindRunByID"}
WriteRunOps == {"CancelRun", "RetryRun", "ForceRun"}

\* C3 as stated: each of the six log and run operations reaches the wrapped
\* operation only if the principal is Allowed Read on the task and the action of
\* the operation; Write without Read never causes a wrapped CancelRun, RetryRun or
\* ForceRun.
C3_Original ==
    (last.op \in ReadRunOps \cup WriteRunOps /\ Invoked(WrappedFn)) =>
        /\ Holds(TaskPerm(ReadAction))
        /\ last.op \in WriteRunOps => Holds(TaskPerm(WriteAction))

\* C3 amended: FindLogs, FindRuns and FindRunByID reach the wrapped operation only
\* if the principal is Allowed Read on the task; CancelRun, RetryRun and ForceRun
\* look the task up unauthenticated and check Write alone: they reach the wrapped
\* operation exactly when the task exists and the principal is Allowed Write on
\* it, and Read is never evaluated.
C3_ReadForFindsWriteForRuns ==
    /\ (last.op \in ReadRunOps /\ Invoked(WrappedFn)) =>
          /\ Holds(TaskPerm(ReadAction))
          /\ \E i \in Indices("Allowed") :
                /\ last.calls[i].arg = TaskPerm(ReadAction)
                /\ last.calls[i].res.ok
                /\ \A k \in Indices(WrappedFn) : i < k
    /\ (last.op \in WriteRunOps /\ Found) =>
          /\ Invoked(WrappedFn) <=> Holds(TaskPerm(WriteAction))
          /\ \A i \in Indices("Allowed") : last.calls[i].arg.action = WriteAction

C3_Witness ==
    /\ last.op \in WriteRunOps
    /\ Found
    /\ Holds(TaskPerm(WriteAction))
    /\ ~Holds(TaskPerm(ReadAction))
    /\ Invoked(WrappedFn)

\* The unauthenticated candidates of a FindTasks call, and the test the filter makes.
Candidates  == last.calls[1].res.val.list
Readable(t) == Holds(NewPermissionAtID(t.id, ReadAction, TasksResourceType, t.org))

\* C4: FindTasks returns the candidates of the wrapped FindTasks for which the
\* principal is Allowed Read at the task's ID and organization, in their order and
\* nothing else, and its count is the length of that list.
C4_FindTasksFilters ==
    (last.op = "FindTasks" /\ ~IsErr(last.ret.err)) =>
        /\ last.ret.val.list = SelectSeq(Candidates, Readable)
        /\ last.ret.val.count = Len(SelectSeq(Candidates, Readable))

C4_Witness ==
    /\ last.op = "FindTasks"
    /\ ~IsErr(last.ret.err)
    /\ Len(Candidates) = 2
    /\ Len(last.ret.val.list) = 1
    /\ last.ret.val.count = 1
    /\ last.calls[1].res.val.count = 2

\* The action each operation checks on the task.
CheckedAction ==
    IF last.op \in {"FindTaskByID", "FindLogs", "FindRuns", "FindRunByID"}
    THEN ReadAction ELSE WriteAction

\* The permission check and, for the script operations, pre-authorization pass.
ChecksPass ==
    CASE last.op = "FindTasks" -> TRUE
      [] last.op = "CreateTask" ->
           /\ Holds(TaskPerm(WriteAction))
           /\ ~IsErr(Compile(ValidatedScript).err) /\ PlanAuthorized(ValidatedScript)
      [] last.op = "UpdateTask" ->
           /\ Found /\ Holds(TaskPerm(WriteAction))
           /\ ~IsErr(Compile(ValidatedScript).err) /\ PlanAuthorized(ValidatedScript)
      [] OTHER -> Found /\ Holds(TaskPerm(CheckedAction))

\* C5: when the checks pass, the operation calls the wrapped service's same
\* operation exactly once, with the caller's arguments, and returns its value and
\* error as they are (FindTasks: its list, once filtered, see C4; with every
\* candidate readable, the list itself).
C5_PureDecoration ==
    (last.op # "none" /\ ChecksPass) =>
        /\ Count(WrappedFn) = 1
        /\ TheCall(WrappedFn).arg = last.arg
        /\ last.ret.err = TheCall(WrappedFn).res.err
        /\ last.op \notin {"FindTasks", "CancelRun", "DeleteTask"}
             => last.ret.val = TheCall(WrappedFn).res.val
        /\ (last.op = "FindTasks" /\ ~IsErr(last.ret.err)
              /\ \A i \in DOMAIN Candidates : Readable(Candidates[i]))
             => last.ret.val.list = Candidates

C5_Witness ==
    /\ last.op = "CreateTask"
    /\ last.arg.flux = "fromA"
    /\ NewPermission(WriteAction, TasksResourceType, last.arg.org) \in auth.perms
    /\ Count("TS.CreateTask") = 1
    /\ ~IsErr(last.ret.err)
    /\ last.ret.val.flux = "fromA"

\* C6: when validatePermission finds the permission on the task not Allowed, the
\* caller gets the authError that carries that permission and the identity of the
\* context's principal; and an authError is returned in no other case.
C6_AuthErrorPayload ==
    /\ (last.op # "FindTasks") =>
          \A i \in Indices("Allowed") :
             (last.calls[i].arg.type = TasksResourceType /\ ~last.calls[i].res.ok) =>
                 /\ last.ret.err.kind = "authError"
                 /\ last.ret.err.msg = "unauthorized"
                 /\ last.ret.err.perm = last.calls[i].arg
                 /\ last.ret.err.perm = TaskPerm(CheckedAction)
                 /\ last.ret.err.auth = auth.ident
    /\ last.ret.err.kind = "authError" =>
          /\ auth.present
          /\ ~Allowed(auth, last.ret.err.perm)

C6_Witness ==
    /\ last.op = "DeleteTask"
    /\ Found
    /\ auth.present
    /\ ~Allowed(auth, TaskPerm(WriteAction))
    /\ last.ret.err = authError(TaskPerm(WriteAction), auth)

\* C7: in CreateTask and UpdateTask a script that does not compile gives an error
\* of kind Invalid wrapping the compiler's error, a pre-authorization failure gives
\* an error of kind Invalid wrapping the pre-authorizer's error, and neither is
\* the authError of a failed permission check.
C7_InvalidKinds ==
    last.op \in ScriptOps =>
        /\ \A i \in Indices("Compile") :
              IsErr(last.calls[i].res.err) =>
                 /\ last.ret.err.kind = "invalid"
                 /\ last.ret.err.wraps = last.calls[i].res.err
                 /\ last.ret.err.wraps.kind = "compile"
        /\ \A i \in Indices("PreAuthorize") :
              IsErr(last.calls[i].res.err) =>
                 /\ last.ret.err.kind = "invalid"
                 /\ last.ret.err.wraps = last.calls[i].res.err
                 /\ last.ret.err.wraps.kind = "preauth"
        /\ last.ret.err.kind = "authError" =>
              (~Invoked("Compile") /\ ~Invoked("PreAuthorize"))

C7_Witness ==
    /\ last.op = "UpdateTask"
    /\ Invoked("Compile")
    /\ last.ret.err = EInvalidError(ErrCompile, "Failed to compile flux script.")

\* ================================================ claims: the logging bridge
QIndices(fn) == { i \in DOMAIN lq.f.calls : lq.f.calls[i].fn = fn }
QCount(fn)   == Cardinality(QIndices(fn))

\* The collaborators a call got as far as, and what they did.
GotIterator   == lq.called /\ lq.in.inner = "ok"
EncoderPanics == GotIterator /\ lq.in.enc = "panic"
EncodeFails   == GotIterator /\ lq.in.enc = "err"
IterPanics    == GotIterator /\ lq.in.enc = "ok" /\ lq.in.iterErr = "panic"
IterFails     == GotIterator /\ lq.in.enc = "ok" /\ lq.in.iterErr = "err"
ReleasePanics == GotIterator /\ lq.in.release = "panic"
QuerySucceeds == GotIterator /\ lq.in.enc = "ok" /\ lq.in.iterErr = "nil"
                    /\ lq.in.release = "ok"
Panicked      == \/ lq.called /\ lq.in.inner = "panic"
                 \/ EncoderPanics \/ IterPanics \/ ReleasePanics

\* The value recover() yields: that of the last panic raised.
LastPanic ==
    IF lq.in.inner = "panic" THEN "query"
    ELSE IF lq.in.release = "panic" THEN "release"
    ELSE IF lq.in.enc = "panic" THEN "encoder" ELSE "iterator"

\* C8: every Query call logs exactly one record, as the last thing it does; the
\* record's Error is non-nil when the inner Query failed, the encoder failed, the
\* iterator reported an error after encoding or a panic was recovered, and nil
\* when the call succeeded.
C8_OneLogRecord ==
    lq.called =>
        /\ Len(lq.f.logs) = 1
        /\ QIndices("Log") = { Len(lq.f.calls) }
        /\ lq.f.logs[1].org = lq.in.org
        /\ (lq.in.inner = "err" \/ EncodeFails \/ IterFails \/ Panicked)
             => IsErr(lq.f.logs[1].error)
        /\ QuerySucceeds => lq.f.logs[1].error = NoErr

C8_Witness ==
    /\ IterFails
    /\ lq.in.bytes > 0
    /\ lq.in.release = "ok"
    /\ Len(lq.f.logs) = 1
    /\ lq.f.logs[1].error = ErrIter

\* C9: a panic in the inner Query, the encoder or the iterator does not leave
\* Query: it is recovered, Query returns the error made from the panic value, and
\* the one record is logged after the recovery, with that error.
C9_PanicRecovered ==
    Panicked =>
        /\ lq.f.panic = ""
        /\ lq.f.err = PanicError(LastPanic)
        /\ QCount("recover") = 1
        /\ Len(lq.f.logs) = 1
        /\ \A i \in QIndices("recover"), j \in QIndices("Log") : i < j
        /\ lq.f.logs[1].error = lq.f.err

C9_Witness ==
    /\ EncoderPanics
    /\ lq.in.bytes > 0
    /\ lq.f.panic = ""
    /\ lq.f.err = PanicError("encoder")
    /\ Len(lq.f.logs) = 1

\* C10: when the inner Query returned an iterator it is released exactly once,
\* Statistics() is read only after Release() and the record is logged after both,
\* so that on success, encode error, iterator error and encoder panic the record
\* carries the final statistics; when the inner Query failed nothing is released
\* and the record carries the zero statistics.
C10_ReleaseThenStatistics ==
    /\ GotIterator =>
          /\ QCount("Release") = 1
          /\ lq.f.it.released = 1
          /\ \A i \in QIndices("Release"), j \in QIndices("Statistics") : i < j
          /\ \A i \in QIndices("Release") \cup QIndices("Statistics"),
                j \in QIndices("Log") : i < j
          /\ (lq.in.release = "ok" /\ (QuerySucceeds \/ EncodeFails \/ IterFails \/ EncoderPanics))
                => /\ QCount("Statistics") = 1
                   /\ lq.f.logs[1].stats = Stats(lq.in.final)
    /\ (lq.called /\ ~GotIterator) =>
          /\ QCount("Release") = 0
          /\ QCount("Statistics") = 0
          /\ lq.f.logs[1].stats = ZeroStats

C10_Witness ==
    /\ EncoderPanics
    /\ lq.in.release = "ok"
    /\ lq.f.it.released = 1
    /\ lq.in.final = 2
    /\ lq.f.logs[1].stats = Stats(2)
    /\ lq.f.logs[1].error = PanicError("encoder")

\* ================================================== claims: the proxy bridge
PIndices(fn) == { i \in DOMAIN pq.f.calls : pq.f.calls[i].fn = fn }
PCount(fn)   == Cardinality(PIndices(fn))

\* The Header.Set calls on one key.
PHeaderSets(key) == { i \in PIndices("Header.Set") : pq.f.calls[i].arg.key = key }

PGotIterator   == pq.called /\ pq.in.inner = "ok"
PEncodeFails   == PGotIterator /\ pq.in.enc = "err"
PEncoderPanics == PGotIterator /\ pq.in.enc = "panic"
PEncodes       == PGotIterator /\ pq.in.enc = "ok"

\* C11: in ProxyQueryServiceBridge.Query every read of Statistics() comes after a
\* Release() of the iterator has returned, so that the value set as the
\* Influx-Query-Statistics trailer is that of a released iterator: the final
\* statistics of the query. (The code reads Statistics() at line 55, while the
\* Release() deferred at line 41 runs only when Query leaves: violated.)
C11_ReleaseBeforeStatistics ==
    /\ \A j \in PIndices("Statistics") : \E i \in PIndices("Release") : i < j
    /\ pq.f.header[queryStatisticsTrailer] # "" =>
          pq.f.header[queryStatisticsTrailer] = Marshal(Stats(pq.in.final))

\* C12: once the inner Query has returned an iterator, Release() is called on it
\* exactly once, as the last thing Query does, whether the encoding succeeds,
\* fails or panics; when the inner Query returns an error nothing is released
\* and Query returns 0 bytes with that error.
C12_ReleasedOncePerExit ==
    /\ PGotIterator =>
          /\ PCount("Release") = 1
          /\ PIndices("Release") = { Len(pq.f.calls) }
          /\ pq.f.it.released = 1
    /\ (pq.called /\ pq.in.inner = "err") =>
          /\ PCount("Release") = 0
          /\ pq.f.it = NoIterator
          /\ pq.f.n = 0
          /\ pq.f.err = ErrQuery
          /\ pq.f.panic = ""

C12_Witness ==
    /\ PEncoderPanics
    /\ pq.in.bytes > 0
    /\ pq.in.release = "ok"
    /\ pq.f.panic = "encoder"
    /\ pq.f.it.released = 1
    /\ PCount("Release") = 1

\* C13: on a sink that is an http.ResponseWriter the Trailer header announces
\* Influx-Query-Statistics before the encoder writes, and the
\* Influx-Query-Statistics value is set only after the encoding has finished; on
\* any other sink no header is set, and the bytes written, n, the error and the
\* panic are those of the same call on an http.ResponseWriter.
C13_TrailerAroundEncode ==
    pq.called =>
        /\ pq.in.http =>
              /\ \A e \in PIndices("Encode") :
                    /\ \E i \in PHeaderSets("Trailer") :
                          /\ i < e
                          /\ pq.f.calls[i].arg.value = queryStatisticsTrailer
                    /\ \A j \in PHeaderSets(queryStatisticsTrailer) : e < j
              /\ PHeaderSets(queryStatisticsTrailer) # {} => PEncodes
              /\ PEncodes => pq.f.header[queryStatisticsTrailer] # ""
        /\ ~pq.in.http =>
              /\ PCount("Header.Set") = 0
              /\ pq.f.header = NoHeader
              /\ LET g == ProxyQuery([pq.in EXCEPT !.http = TRUE])
                 IN /\ pq.f.sink = g.sink
                    /\ pq.f.n = g.n
                    /\ pq.f.err = g.err
                    /\ pq.f.panic = g.panic
                    /\ pq.f.it = g.it

C13_Witness ==
    /\ PEncodes
    /\ pq.in.http
    /\ pq.in.bytes > 0
    /\ pq.in.release = "ok"
    /\ pq.f.header["Trailer"] = queryStatisticsTrailer
    /\ pq.f.header[queryStatisticsTrailer] # ""
    /\ pq.f.n = pq.in.bytes

\* C14: when the encoder fails Query returns the encoder's error with exactly
\* the byte count the encoder reported, 0 or the partial count, and the
\* Influx-Query-Statistics value is not set.
C14_EncodeErrorKeepsCount ==
    PEncodeFails =>
        /\ IsErr(pq.f.err)
        /\ pq.f.err = ErrEncode
        /\ pq.f.n = pq.in.bytes
        /\ pq.f.sink = pq.in.bytes
        /\ PHeaderSets(queryStatisticsTrailer) = {}
        /\ pq.f.header[queryStatisticsTrailer] = ""

C14_Witness ==
    /\ PEncodeFails
    /\ pq.in.http
    /\ pq.in.bytes = 2
    /\ pq.in.release = "ok"
    /\ pq.f.n = 2
    /\ pq.f.err = ErrEncode
    /\ pq.f.header[queryStatisticsTrailer] = ""

\* ============================================ claims: the HTTP query handler
HIndices(fn) == { i \in DOMAIN hq.f.calls : hq.f.calls[i].fn = fn }
HCount(fn)   == Cardinality(HIndices(fn))

HTrailerSets == { i \in HIndices("Header.Set") : hq.f.calls[i].arg.key = queryStatisticsTrailer }
HExplicitReleases == { i \in HIndices("Release") : ~hq.f.calls[i].arg.deferred }

HGotIterator == hq.called /\ hq.in.decode = "ok" /\ hq.in.inner = "ok"
HQueryFails  == hq.called /\ hq.in.decode = "ok" /\ hq.in.inner = "err"
HEncodeFails == HGotIterator /\ hq.in.enc = "err"

\* C15: when the encoding fails in handlePostQuery and the encoder wrote no byte,
\* the client is sent one error response, that of the encoder's error; when it
\* wrote one or more bytes no error response is sent and the error is only
\* logged, so that no error body follows the bytes already sent.
C15_ErrorResponseOnlyWhenNothingSent ==
    HEncodeFails =>
        /\ hq.in.bytes = 0 =>
              /\ hq.f.errors = << ErrEncode >>
              /\ HCount("EncodeError") = 1
              /\ \A i \in DOMAIN hq.f.logs : hq.f.logs[i].error # ErrEncode
        /\ hq.in.bytes >= 1 =>
              /\ hq.f.errors = << >>
              /\ HCount("EncodeError") = 0
              /\ hq.f.sink = hq.in.bytes
              /\ \E i \in DOMAIN hq.f.logs :
                    hq.f.logs[i] = [msg |-> "Failed to encode client response",
                                    error |-> ErrEncode]

C15_Witness ==
    /\ HEncodeFails
    /\ hq.in.bytes = 1
    /\ hq.f.sink = 1
    /\ hq.f.errors = << >>
    /\ Len(hq.f.logs) >= 1

\* C16: on every path of handlePostQuery on which the query service returned an
\* iterator, Statistics() is read and the Influx-Query-Statistics value is set
\* only after the explicit Release() of the iterator, so that the value set is
\* that of the final statistics; when the query service failed (or the request
\* did not decode) neither happens and the trailer is not set.
C16_TrailerAfterExplicitRelease ==
    /\ HGotIterator =>
          /\ \A j \in HIndices("Statistics") \cup HTrailerSets :
                \E i \in HExplicitReleases : i < j
          /\ \A j \in HTrailerSets : \E k \in HIndices("Statistics") : k < j
          /\ \A j \in HIndices("Statistics") : hq.f.calls[j].res = Stats(hq.in.final)
          /\ hq.f.header[queryStatisticsTrailer] # "" =>
                hq.f.header[queryStatisticsTrailer]
                    = Marshal(WithResponseBytes(Stats(hq.in.final), hq.in.bytes))
          /\ (hq.in.enc # "panic" /\ hq.in.marshal = "ok") =>
                hq.f.header[queryStatisticsTrailer] # ""
    /\ (hq.called /\ ~HGotIterator) =>
          /\ HTrailerSets = {}
          /\ HCount("Statistics") = 0
          /\ HCount("Release") = 0
          /\ hq.f.header = NoHeader

C16_Witness ==
    /\ HGotIterator
    /\ hq.in.enc = "ok"
    /\ hq.in.marshal = "ok"
    /\ hq.in.final = 2
    /\ hq.in.bytes = 1
    /\ HExplicitReleases # {}
    /\ hq.f.header[queryStatisticsTrailer] = Marshal(WithResponseBytes(Stats(2), 1))

\* ============================================ claims: the document predicates
DocAccessors == GetDocumentsAccessors(dc.idx, dc.last.arg.id, "").val

\* C17: when the index answers, TokenAuthorized(a)(docID, idx) returns nil iff
\* the token is active and one of its permissions has an action other than Read,
\* the resource type Documents and either the ID docID, or neither ID nor OrgID,
\* or an OrgID among the accessors of the document; in every other case it
\* returns Unauthorized, so also when all permissions that would match are Read.
\* (An inactive token is Unauthorized before the index is asked; the error of a
\* failing index goes to the caller of an active token as it is.)
C17_TokenAuthorizedRule ==
    dc.last.op = "TokenAuthorized" =>
        LET id == dc.last.arg.id
            ok == /\ dc.a.active
                  /\ \E i \in DOMAIN dc.a.perms :
                        LET p == dc.a.perms[i]
                        IN /\ p.action # ReadAction
                           /\ p.type = DocumentsResourceType
                           /\ \/ p.id = id
                              \/ (p.id = 0 /\ p.org = 0)
                              \/ (p.org # 0 /\ p.org \in Range(DocAccessors))
        IN /\ (dc.last.fail = "" \/ ~dc.a.active) =>
                 /\ (dc.last.ret.err = NoErr) <=> ok
                 /\ ~ok => /\ dc.last.ret.err.kind = "unauthorized"
                           /\ dc.last.ret.err = ErrUnauthorized(dc.last.ret.err.msg)
           /\ (dc.last.fail # "" /\ dc.a.active) => dc.last.ret.err = ErrIndex

C17_Witness ==
    /\ dc.last.op = "TokenAuthorized"
    /\ dc.last.fail = ""
    /\ dc.a.active
    /\ dc.last.arg.id = 2
    /\ Len(dc.a.perms) = 2
    /\ dc.a.perms[1] = NewPermissionAtID(1, WriteAction, DocumentsResourceType, 0)
    /\ dc.a.perms[2] = NewPermission(ReadAction, DocumentsResourceType, 2)
    /\ 2 \in Range(DocAccessors)
    /\ dc.last.ret.err = ErrUnauthorized("authorization cannot access document")

\* The documents an authorizer has access to: for a user those it owns and
\* those of its organizations; for a token those its Documents permissions
\* name and those of the organizations they name.
AccessibleDocs ==
    IF dc.a.kind = "user"
    THEN dc.idx.userDocs[dc.a.user]
           \cup UNION { dc.idx.orgDocs[o] : o \in dc.idx.userOrgs[dc.a.user] }
    ELSE LET ps == { p \in Range(dc.a.perms) : p.type = DocumentsResourceType }
         IN { p.id : p \in { q \in ps : q.id # 0 } }
              \cup UNION { dc.idx.orgDocs[p.org] : p \in { q \in ps : q.org # 0 } }

NoDuplicates(s) == \A i, j \in DOMAIN s : s[i] = s[j] => i = j

\* C18: the first invocation of the predicate of AuthorizedWhere(a) (of
\* TokenAuthorizedWhere(a) for a token) that succeeds returns the documents the
\* authorizer has access to, directly or through its organizations, each ID
\* once. (The code appends the list of every owner as it is: a document owned by
\* the user and by one of its organizations, or by two of them, is listed twice:
\* violated.)
C18_WhereDeduplicatedUnion ==
    (dc.last.op = "Where" /\ dc.uses = 1 /\ ~IsErr(dc.last.ret.err)) =>
        /\ Range(dc.last.ret.val) = AccessibleDocs
        /\ NoDuplicates(dc.last.ret.val)

\* ================================== claims: what a caller learns of a task
SingleResourceOps == {"FindTaskByID", "UpdateTask", "DeleteTask", "FindRunByID",
                      "CancelRun", "RetryRun", "ForceRun"}

\* C20: a single-resource operation starts with the unauthenticated lookup of
\* the task, before any permission is looked at; for a principal that is not
\* Allowed what the operation requires, a task that is not there gives the
\* persistence layer's NotFound error and a task that is there gives the
\* Unauthorized authError: the two errors differ, so the answer tells that
\* caller whether the task exists.
C20_ExistenceDistinguishable ==
    (last.op \in SingleResourceOps /\ auth.present) =>
        /\ last.calls[1].fn = "TS.FindTaskByID"
        /\ ~Found =>
              /\ ~Exists(store, TaskIDOf)
              /\ last.ret.err = ErrNotFound
              /\ last.ret.err.kind # "authError"
              /\ ~Invoked("Allowed")
        /\ (Found /\ ~Allowed(auth, TaskPerm(CheckedAction))) =>
              /\ Exists(store, TaskIDOf)
              /\ last.ret.err = authError(TaskPerm(CheckedAction), auth)
              /\ last.ret.err.msg = "unauthorized"
              /\ last.ret.err # ErrNotFound

C20_Witness ==
    /\ last.op = "ForceRun"
    /\ auth.present
    /\ auth.perms = { NewPermission(ReadAction, TasksResourceType, 1) }
    /\ Exists(store, 1) /\ ~Exists(store, 2)
    /\ last.arg.task = 1
    /\ last.ret.err.kind = "authError"

\* ================================ claims: the scripts the persistence layer holds
\* The script a successful CreateTask or UpdateTask had the wrapped service
\* persist ("": none, the update left the script as it was).
PersistedScript ==
    IF last.op = "CreateTask" THEN last.arg.flux ELSE last.arg.upd.flux

\* C21: every script that a CreateTask or UpdateTask of the run had the
\* persistence layer store was compiled and pre-authorized for the principal of
\* the run before the wrapped operation was reached: the scripts the store holds
\* that it did not start with compile and have every bucket Allowed, and an
\* UpdateTask that carries a new script reaches the wrapped UpdateTask only after
\* Compile and PreAuthorize succeeded on that new script. (UpdateTask hands the
\* stored task.Flux to validateBucket, not upd.Flux: violated.)
C21_PersistedScriptsPreAuthorized ==
    /\ \A id \in TaskIDs :
          (Exists(store, id) /\ store[id].flux # "fromA") =>
              /\ ~IsErr(Compile(store[id].flux).err)
              /\ PlanAuthorized(store[id].flux)
    /\ (last.op \in ScriptOps /\ Invoked(WrappedFn) /\ PersistedScript # "") =>
          /\ \E i \in Indices("Compile") :
                /\ last.calls[i].arg.script = PersistedScript
                /\ ~IsErr(last.calls[i].res.err)
          /\ PlanAuthorized(PersistedScript)

\* C22: when the unauthenticated lookup of the task fails, a single-resource
\* operation returns the error of the wrapped FindTaskByID as it is, makes no
\* permission check, and does not call the wrapped operation it is about: the
\* lookup is the only call it makes.
C22_LookupErrorForwarded ==
    (last.op \in ByIDOps /\ ~Found) =>
        /\ IsErr(Lookup.err)
        /\ last.ret.err = Lookup.err
        /\ last.ret.val = NoVal
        /\ ~Invoked("Allowed")
        /\ ~Invoked("Compile") /\ ~Invoked("PreAuthorize")
        /\ last.op # "FindTaskByID" => ~Invoked(WrappedFn)
        /\ Len(last.calls) = 1
        /\ last.calls[1].fn = "TS.FindTaskByID"
        /\ ~Exists(store, TaskIDOf)

C22_Witness ==
    /\ last.op = "UpdateTask"
    /\ auth.present
    /\ NewPermission(WriteAction, TasksResourceType, 1) \in auth.perms
    /\ last.arg.upd.flux = "fromAtoB"
    /\ ~Found
    /\ last.ret.err = ErrNotFound
    /\ Len(last.calls) = 1


\* ============================================ claims: the statsResultIterator
Released == si.s.results.released > 0

\* What the response's trailer holds: the statistics it is the JSON of, the
\* zero statistics when it is absent, names no field or is no JSON.
TrailerValues ==
    { Stats(k) : k \in 0 .. MaxStat }
        \cup { WithResponseBytes(Stats(k), b) : k \in 0 .. MaxStat, b \in 0 .. MaxBytes }
TrailerDecodes ==
    \/ si.s.trailer = "{}"
    \/ \E v \in TrailerValues : Marshal(v) = si.s.trailer
TrailerStats ==
    IF \E v \in TrailerValues : Marshal(v) = si.s.trailer
    THEN CHOOSE v \in TrailerValues : Marshal(v) = si.s.trailer
    ELSE ZeroStats

\* C23: while the statsResultIterator is Open, More() and Next() leave it Open
\* and Statistics() is the zero value with no decoding error; after Release()
\* it is Released and Statistics() is what the Influx-Query-Statistics trailer
\* decodes to (zero when the trailer is absent); Err() is the underlying
\* iterator's error when it has one, and the trailer's decoding error only
\* when it has none.
C23_IteratorStates ==
    /\ ~Released => (si.s.statisitcs = ZeroStats /\ si.s.err = NoErr /\ si.s.reads = 0)
    /\ (si.last.op \in {"More", "Next"} /\ si.before.results.released = 0) => ~Released
    /\ si.last.op = "Release" => Released
    /\ (si.last.op = "Statistics" /\ ~Released) => si.last.res.stats = ZeroStats
    /\ (si.last.op = "Statistics" /\ Released) => si.last.res.stats = TrailerStats
    /\ si.last.op = "Err" =>
          si.last.res.err =
              IF IsErr(si.s.results.err) THEN si.s.results.err
              ELSE IF Released /\ si.s.trailer # "" /\ ~TrailerDecodes THEN ErrUnmarshal
              ELSE NoErr

C23_Witness ==
    /\ si.last.op = "Err"
    /\ Released
    /\ si.s.trailer # "" /\ ~TrailerDecodes
    /\ si.s.results.err = ErrIter
    /\ si.last.res.err = ErrIter
    /\ si.s.err = ErrUnmarshal

\* C24: a Release() after the first one has no effect: it does not run the
\* statistics finalization again, leaves Statistics() and Err() as they were
\* and does not release the underlying iterator again.
\* (Release() has no guard: each call releases the underlying iterator and
\* reads the trailer again: violated.)
C24_ReleaseIdempotent ==
    (si.last.op = "Release" /\ si.before.results.released >= 1) =>
        /\ si.s.reads = si.before.reads
        /\ si.s.results.released = si.before.results.released
        /\ SRI_Statistics(si.s) = SRI_Statistics(si.before)
        /\ SRI_Err(si.s) = SRI_Err(si.before)


\* C25: a predicate value returned by AuthorizedWhere or TokenAuthorizedWhere
\* keeps no state: invoked again against the same index it returns what a
\* fresh predicate value returns, with no IDs of an earlier invocation.
\* (`var ids []ID` is declared outside the returned closure, and every
\* invocation appends to it: violated from the second invocation on.)
C25_PredicatesStateless ==
    (dc.last.op = "Where" /\ dc.last.fail = "") =>
        LET fresh == AuthorizedWhere(dc.a, << >>, dc.idx, "")
        IN /\ dc.last.ret.val = fresh.val
           /\ dc.last.ret.err = fresh.err


\* The tasks of the store that match the filter of the last FindTasks call and
\* that the principal may read.
ReadableMatches ==
    { id \in TaskIDs :
        /\ Exists(store, id)
        /\ (last.arg.org = 0 \/ last.arg.org = store[id].org)
        /\ Readable(TaskVal(store, id)) }

\* C26: FindTasks calls the wrapped FindTasks exactly once, first, with the
\* caller's filter as it came, and makes no other call on the wrapped service;
\* the result holds tasks of that one page only, so it may be shorter than the
\* limit while readable tasks remain beyond the page.
C26_FindTasksSinglePage ==
    last.op = "FindTasks" =>
        /\ Count("TS.FindTasks") = 1
        /\ last.calls[1].fn = "TS.FindTasks"
        /\ last.calls[1].arg = last.arg
        /\ \A i \in DOMAIN last.calls : i > 1 => last.calls[i].fn = "Allowed"
        /\ ~IsErr(last.ret.err) =>
              /\ \A i \in DOMAIN last.ret.val.list :
                    \E j \in DOMAIN Candidates : Candidates[j] = last.ret.val.list[i]
              /\ Len(Candidates) <= last.arg.limit

C26_Witness ==
    /\ last.op = "FindTasks"
    /\ ~IsErr(last.ret.err)
    /\ last.arg.limit = 1
    /\ Len(Candidates) = 1
    /\ last.ret.val.list = << >>
    /\ ReadableMatches # {}
    /\ Count("TS.FindTasks") = 1

\* C30: FindTasks on a context that carries no authorizer returns an error, as
\* FindTaskByID does, not a list with a nil error.
\* (The loop of FindTasks skips a task on any error of validatePermission,
\* the missing authorizer included: violated.)
C30_FindTasksNoAuthorizerFails ==
    (last.op = "FindTasks" /\ ~auth.present) => IsErr(last.ret.err)


\* C27: when the encoder returns no error but the iterator's Err() is non-nil
\* after the encoding, ProxyQueryServiceBridge.Query returns a non-nil error,
\* as LoggingServiceBridge.Query does.
\* (ProxyQueryServiceBridge.Query never reads results.Err(): violated.)
C27_ProxySurfacesIteratorError ==
    (/\ pq.called
     /\ pq.in.inner = "ok" /\ pq.in.enc = "ok" /\ pq.in.release = "ok"
     /\ pq.in.iterErr = "err") =>
        IsErr(pq.f.err)


\* C28: the one record LoggingServiceBridge.Query logs agrees with what the
\* caller receives on every exit path: its ResponseSize is the returned byte
\* count and its Error the returned error; after a recovered panic both hold
\* the panic's error; and when the iterator reports an error after a
\* successful encoding both show 0 bytes whatever the sink received.
C28_LogAgreesWithReturn ==
    lq.called =>
        /\ Len(lq.f.logs) = 1
        /\ lq.f.logs[1].size = lq.f.n
        /\ lq.f.logs[1].error = lq.f.err
        /\ Panicked => (lq.f.err = PanicError(LastPanic) /\ lq.f.panic = "")
        /\ (IterFails /\ ~ReleasePanics) =>
              /\ lq.f.n = 0
              /\ lq.f.logs[1].size = 0
              /\ lq.f.logs[1].error = ErrIter
              /\ lq.f.sink = lq.in.bytes

C28_Witness ==
    /\ IterFails /\ ~ReleasePanics
    /\ lq.in.bytes = MaxBytes
    /\ lq.f.sink = MaxBytes
    /\ lq.f.n = 0
    /\ lq.f.logs[1].size = 0
    /\ lq.f.logs[1].error = ErrIter
    /\ lq.f.err = ErrIter

====
